---------------------------- MODULE Spec2Model ----------------------------
(***************************************************************************)
(* Model of the policy layer of the agent factory SDK:                     *)
(*   - RateLimiter (sdk/python/agent-factory-sdk/guardrails.py)            *)
(*   - Guardrails.validate_input / validate_output and the redaction tiers *)
(*   - AgentMonitoring.track_invocation (monitoring.py)                    *)
(* as the agents compose them around their handlers.                       *)
(***************************************************************************)
EXTENDS Integers, Sequences, FiniteSets, TLC

(***************************************************************************)
(* Bounds of the model.                                                    *)
(***************************************************************************)
MaxClock == 3
MaxN == 2
MaxW == 2
NumThreads == 2
MaxCalls == 4
MaxItems == 2

Identifiers == {"user-1", "user-2"}
Threads == 1..NumThreads

VARIABLES
  \* ---- RateLimiter object (guardrails.py 369-379) and the clock
  max_requests,   \* self.max_requests
  time_window,    \* self.time_window
  requests,       \* self._requests : dict identifier -> list of timestamps
  clock,          \* what time.time() returns now
  \* ---- one check_limit activation per thread
  pc,             \* position of each thread inside check_limit
  ident,          \* the identifier argument of the activation
  now,            \* local `now`
  filtered,       \* value of the list comprehension before it is stored
  \* ---- history of the verdicts (not program state)
  admitted,       \* identifier -> timestamps of the calls that returned True
  calls,          \* number of check_limit calls started so far
  last            \* the call that returned last

rlVars == <<max_requests, time_window, requests, clock, pc, ident, now,
            filtered, admitted, calls, last>>

VARIABLES
  \* ---- decoration-time configuration
  policyIn,       \* arguments of Guardrails.validate_input
  policyOut,      \* arguments of Guardrails.validate_output
  dlp_configured, \* Guardrails._dlp_client and Guardrails._project_id are set
  \* ---- one invocation of the decorated handler
  cpc,            \* position inside the nested wrappers
  args,           \* positional arguments as the wrappers pass them down
  kwargs,         \* keyword arguments as the wrappers pass them down
  input_data,     \* local of validate_input's wrapper
  result,         \* local of validate_output's and track_invocation's wrapper
  pending,        \* the exception propagating out of the handler, if any
  \* ---- what happened during the invocation (not program state)
  call0,          \* the arguments as the caller passed them
  trace,          \* the stages that ran, in order
  handlerCalls,   \* how often the handler was invoked
  handlerGot,     \* the arguments the handler got and the value it returned
  logs,           \* the _log_invocation calls: <<success, error>> each
  metricsSent,    \* the _send_invocation_metrics calls
  redactions,     \* the _redact_pii_gcp calls: stage, data, answer, out
  outcome         \* what the caller got: a value or an exception

chVars == <<policyIn, policyOut, dlp_configured, cpc, args, kwargs,
            input_data, result, pending, call0, trace, handlerCalls,
            handlerGot, logs, metricsSent, redactions, outcome>>

\* The caller of an async handler: the coroutine object the decorated call
\* hands back, and what awaiting it finally gives.
VARIABLES
  coro,           \* "none", "created" (not yet awaited), "finished"
  final           \* what the awaiting caller finally obtains

awVars == <<coro, final>>

\* One use of a redactor on its own, outside the wrappers.
VARIABLES
  rpc,            \* "idle", "once" (redacted), "twice" (redacted again)
  rtier,          \* the redactor used
  rdata,          \* its argument
  rout,           \* redact(rdata)
  rout2           \* redact(redact(rdata))

rdVars == <<rpc, rtier, rdata, rout, rout2>>

\* The monitoring backend as the process sees it.
VARIABLES
  sink,           \* "up", or "down": every delivery to Cloud Monitoring fails
  undelivered,    \* what this invocation failed to deliver (not program state)
  handlerExc      \* what the handler itself raised (not program state)

snVars == <<sink, undelivered, handlerExc>>

\* One use of Guardrails._detect_pii on its own.
VARIABLES
  scanText,       \* the text scanned last
  scanOut         \* the findings returned for it

scVars == <<scanText, scanOut>>

\* Calls through the RateLimiter decorator (not program state).
VARIABLES
  raisedAt        \* identifier -> timestamps of the admitted calls whose
                  \* wrapped function raised

qtVars == <<raisedAt>>

\* The agent registry: the Firestore collection 'agents' and the requests
\* in progress against it.
VARIABLES
  agents,         \* agent name -> stored document, NoDoc if there is none
  reg             \* client -> its register_agent request and the answer

rgVars == <<agents, reg>>

\* PerformanceTracker.
VARIABLES
  start_times,    \* self._start_times: span name -> start time
  span            \* caller -> its call of a measured function

tkVars == <<start_times, span>>

xtVars == <<scVars, qtVars, rgVars, tkVars>>

vars == <<rlVars, chVars, awVars, rdVars, snVars, xtVars>>

NoCall == [id |-> "", now |-> 0, pre |-> <<>>, present |-> FALSE,
           inWindow |-> 0, result |-> FALSE, done |-> FALSE]

(***************************************************************************)
(* RateLimiter.check_limit, guardrails.py 381-410.                         *)
(***************************************************************************)

\* The comprehension keeping a timestamp that is exactly time_window old.
PruneInclusive(list, t, w) == SelectSeq(list, LAMBDA ts : t - ts <= w)

\* Lines 397-400: [ts for ts in self._requests[identifier]
\*                 if now - ts < self.time_window]
Prune(list, t, w) == SelectSeq(list, LAMBDA ts : t - ts < w)

\* Line 405 with an off-by-one comparison (a plausible slip).
AtLimitOffByOne(list, n) == Len(list) > n

\* Line 405: len(self._requests[identifier]) >= self.max_requests
AtLimit(list, n) == Len(list) >= n

\* Lines 405-406 recording the attempt before returning False.
RejectedListRecording(list, t) == Append(list, t)

\* Lines 405-406: the list a rejected call leaves behind (nothing appended).
RejectedList(list, t) == list

\* Lines 408-409: self._requests[identifier].append(now)
AdmittedList(list, t) == Append(list, t)

\* A store that drops the other identifiers' entries.
StoreAlone(dict, i, value) == [k \in {i} |-> value]

\* self._requests[identifier] = value  (creates the key when absent)
Store(dict, i, value) ==
  [k \in DOMAIN dict \cup {i} |-> IF k = i THEN value ELSE dict[k]]

\* Number of calls of identifier i that returned True with a timestamp in
\* the trailing window (t - w, t].
InWindow(i, t, w) ==
  Cardinality({k \in DOMAIN admitted[i] :
                 admitted[i][k] <= t /\ t - admitted[i][k] < w})

RLInit ==
  /\ max_requests \in 1..MaxN
  /\ time_window \in 1..MaxW
  /\ requests = << >>
  /\ clock = 0
  /\ pc = [t \in Threads |-> "idle"]
  /\ ident = [t \in Threads |-> ""]
  /\ now = [t \in Threads |-> 0]
  /\ filtered = [t \in Threads |-> <<>>]
  /\ admitted = [i \in Identifiers |-> <<>>]
  /\ calls = 0
  /\ last = NoCall

\* time.time() advances between calls.
Tick ==
  /\ clock < MaxClock
  /\ clock' = clock + 1
  /\ UNCHANGED <<max_requests, time_window, requests, pc, ident, now,
                 filtered, admitted, calls, last>>
  /\ UNCHANGED chVars
  /\ UNCHANGED <<awVars, rdVars>>
  /\ UNCHANGED <<snVars, xtVars>>

\* The record of a returned call.
Returned(i, t, res) ==
  [id |-> i, now |-> t,
   pre |-> IF i \in DOMAIN requests THEN requests[i] ELSE <<>>,
   present |-> i \in DOMAIN requests,
   inWindow |-> InWindow(i, t, time_window),
   result |-> res, done |-> TRUE]

\* One whole sequential call check_limit(i): lines 393-410.
CheckLimit(i) ==
  LET t == clock
      pruned == IF i \in DOMAIN requests
                  THEN Prune(requests[i], t, time_window)
                  ELSE <<>>
  IN  /\ \A th \in Threads : pc[th] = "idle"
      /\ calls < MaxCalls
      /\ calls' = calls + 1
      /\ IF AtLimit(pruned, max_requests)
           THEN /\ requests' = Store(requests, i, RejectedList(pruned, t))
                /\ last' = Returned(i, t, FALSE)
                /\ UNCHANGED admitted
           ELSE /\ requests' = Store(requests, i, AdmittedList(pruned, t))
                /\ admitted' = [admitted EXCEPT ![i] = Append(@, t)]
                /\ last' = Returned(i, t, TRUE)
      /\ UNCHANGED <<max_requests, time_window, clock, pc, ident, now, filtered>>
      /\ UNCHANGED chVars
      /\ UNCHANGED <<awVars, rdVars>>
      /\ UNCHANGED <<snVars, xtVars>>

SeqCall == \E i \in Identifiers : CheckLimit(i)


(***************************************************************************)
(* check_limit as concurrent callers run it: the method takes no lock, so  *)
(* the interpreter may switch threads between any two of its statements.   *)
(***************************************************************************)

\* Line 393: now = time.time(), on entry of check_limit(i).
Enter(t, i) ==
  /\ pc[t] = "idle"
  /\ calls < MaxCalls
  /\ calls' = calls + 1
  /\ pc' = [pc EXCEPT ![t] = "line396"]
  /\ ident' = [ident EXCEPT ![t] = i]
  /\ now' = [now EXCEPT ![t] = clock]
  /\ UNCHANGED <<max_requests, time_window, requests, clock, filtered,
                 admitted, last>>
  /\ UNCHANGED chVars
  /\ UNCHANGED <<awVars, rdVars>>
  /\ UNCHANGED <<snVars, xtVars>>

\* Line 396: if identifier in self._requests
TestPresent(t) ==
  /\ pc[t] = "line396"
  /\ pc' = [pc EXCEPT ![t] = IF ident[t] \in DOMAIN requests
                               THEN "line397" ELSE "line402"]
  /\ UNCHANGED <<max_requests, time_window, requests, clock, ident, now,
                 filtered, admitted, calls, last>>
  /\ UNCHANGED chVars
  /\ UNCHANGED <<awVars, rdVars>>
  /\ UNCHANGED <<snVars, xtVars>>

\* Lines 397-400, right-hand side: the comprehension reads the stored list.
Comprehend(t) ==
  /\ pc[t] = "line397"
  /\ filtered' = [filtered EXCEPT
                    ![t] = Prune(requests[ident[t]], now[t], time_window)]
  /\ pc' = [pc EXCEPT ![t] = "store"]
  /\ UNCHANGED <<max_requests, time_window, requests, clock, ident, now,
                 admitted, calls, last>>
  /\ UNCHANGED chVars
  /\ UNCHANGED <<awVars, rdVars>>
  /\ UNCHANGED <<snVars, xtVars>>

\* Line 397, the assignment self._requests[identifier] = <pruned list>.
StorePruned(t) ==
  /\ pc[t] = "store"
  /\ requests' = Store(requests, ident[t], filtered[t])
  /\ pc' = [pc EXCEPT ![t] = "line405"]
  /\ UNCHANGED <<max_requests, time_window, clock, ident, now, filtered,
                 admitted, calls, last>>
  /\ UNCHANGED chVars
  /\ UNCHANGED <<awVars, rdVars>>
  /\ UNCHANGED <<snVars, xtVars>>

\* Line 402: self._requests[identifier] = []
StoreEmpty(t) ==
  /\ pc[t] = "line402"
  /\ requests' = Store(requests, ident[t], <<>>)
  /\ pc' = [pc EXCEPT ![t] = "line405"]
  /\ UNCHANGED <<max_requests, time_window, clock, ident, now, filtered,
                 admitted, calls, last>>
  /\ UNCHANGED chVars
  /\ UNCHANGED <<awVars, rdVars>>
  /\ UNCHANGED <<snVars, xtVars>>

\* Lines 405-406: over the limit, return False.
ReturnFalse(t) ==
  /\ pc[t] = "line405"
  /\ AtLimit(requests[ident[t]], max_requests)
  /\ requests' = Store(requests, ident[t],
                       RejectedList(requests[ident[t]], now[t]))
  /\ last' = Returned(ident[t], now[t], FALSE)
  /\ pc' = [pc EXCEPT ![t] = "idle"]
  /\ UNCHANGED <<max_requests, time_window, clock, ident, now, filtered,
                 admitted, calls>>
  /\ UNCHANGED chVars
  /\ UNCHANGED <<awVars, rdVars>>
  /\ UNCHANGED <<snVars, xtVars>>

\* Line 405 passed: go on to the append.
PassLimit(t) ==
  /\ pc[t] = "line405"
  /\ ~AtLimit(requests[ident[t]], max_requests)
  /\ pc' = [pc EXCEPT ![t] = "line409"]
  /\ UNCHANGED <<max_requests, time_window, requests, clock, ident, now,
                 filtered, admitted, calls, last>>
  /\ UNCHANGED chVars
  /\ UNCHANGED <<awVars, rdVars>>
  /\ UNCHANGED <<snVars, xtVars>>

\* Lines 409-410: append now, return True.
AppendReturnTrue(t) ==
  /\ pc[t] = "line409"
  /\ requests' = Store(requests, ident[t],
                       AdmittedList(requests[ident[t]], now[t]))
  /\ admitted' = [admitted EXCEPT ![ident[t]] = Append(@, now[t])]
  /\ last' = Returned(ident[t], now[t], TRUE)
  /\ pc' = [pc EXCEPT ![t] = "idle"]
  /\ UNCHANGED <<max_requests, time_window, clock, ident, now, filtered,
                 calls>>
  /\ UNCHANGED chVars
  /\ UNCHANGED <<awVars, rdVars>>
  /\ UNCHANGED <<snVars, xtVars>>


(***************************************************************************)
(* Values handled by the guardrails.  A text is a sequence of fragments,   *)
(* each standing for one sample string of its kind:                        *)
(*   "plain" hello                 "inj"   system prompt                   *)
(*   "ssn"   123-45-6789           "cc"    4111 1111 1111 1111             *)
(*   "email" a@b.co                "phone" 555-123-4567 (5551234567)       *)
(*   "toxic" hate                                                          *)
(* A payload is None, a str or a dict; a dict item is a string value or a  *)
(* numeric value under its key.                                            *)
(***************************************************************************)
None == [shape |-> "none", items |-> <<>>]
SelfObj == [shape |-> "obj", items |-> <<>>]
Str(toks) ==
  [shape |-> "str",
   items |-> [k \in 1..Len(toks) |-> [pos |-> "text", tok |-> toks[k]]]]
Dict(its) == [shape |-> "dict", items |-> its]
SVal(tok) == [pos |-> "str", tok |-> tok]
NVal(tok) == [pos |-> "num", tok |-> tok]

\* Python truth value: None, "" and {} are false.
Truthy(v) == v.shape = "obj" \/ (v.shape # "none" /\ v.items # <<>>)

\* Optional[int] parameters.
NoLimit == [set |-> FALSE, val |-> 0]
Limit(n) == [set |-> TRUE, val |-> n]

\* str(value): the fragments of the text, in order.
PyStr(v) == IF v.shape = "none" THEN <<"None">>
            ELSE [k \in DOMAIN v.items |-> v.items[k].tok]

\* Number of characters of a fragment's sample string.
TokLen(tok, pos) ==
  CASE tok = "plain" -> 5
    [] tok = "inj" -> 13
    [] tok = "ssn" -> 11
    [] tok = "cc" -> 19
    [] tok = "email" -> 6
    [] tok = "phone" -> IF pos = "num" THEN 10 ELSE 12
    [] tok = "toxic" -> 4
    [] tok = "None" -> 4
    [] tok = "[SSN_REDACTED]" -> 14
    [] tok = "[CREDIT_CARD_REDACTED]" -> 22
    [] tok = "[EMAIL_REDACTED]" -> 16
    [] tok = "[PHONE_REDACTED]" -> 16
    [] OTHER -> 8

RECURSIVE SumLen(_)
SumLen(its) ==
  IF its = <<>> THEN 0
  ELSE TokLen(Head(its).tok, Head(its).pos) + SumLen(Tail(its))

\* len(str(value)): fragments joined by a blank in a str; in a dict each
\* item is 'kN': value, with quotes around a string value, ", " between
\* items and the two braces; a coroutine object prints as
\* <coroutine object score_request at 0x7f0123456789>.
PyLen(v) ==
  CASE v.shape = "none" -> 4
    [] v.shape = "str" ->
         SumLen(v.items) + (IF Len(v.items) > 0 THEN Len(v.items) - 1 ELSE 0)
    [] v.shape = "dict" ->
         2 + SumLen(v.items)
           + 6 * Len(v.items)
           + 2 * Cardinality({k \in DOMAIN v.items : v.items[k].pos = "str"})
           + (IF Len(v.items) > 0 THEN 2 * (Len(v.items) - 1) ELSE 0)
    [] v.shape = "coro" -> 50
    [] OTHER -> 8

Has(text, tok) == \E k \in DOMAIN text : text[k] = tok

(***************************************************************************)
(* Guardrails detectors, guardrails.py 152-208 and 319-339.                *)
(***************************************************************************)

\* _has_prompt_injection, lines 163-177.
HasPromptInjection(text) == Has(text, "inj")

\* _is_toxic, lines 333-339.
IsToxic(text) == Has(text, "toxic")

\* _detect_pii reporting every match, in the order the text has them.
DetectPiiBySpan(text) ==
  LET label(tok) == CASE tok = "ssn" -> <<"SSN">>
                      [] tok = "cc" -> <<"CREDIT_CARD">>
                      [] tok = "email" -> <<"EMAIL_ADDRESS">>
                      [] tok = "phone" -> <<"PHONE_NUMBER">>
                      [] OTHER -> <<>>
      scan[k \in 0..Len(text)] ==
        IF k = 0 THEN <<>> ELSE scan[k - 1] \o label(text[k])
  IN  scan[Len(text)]

\* _detect_pii, lines 190-208: one finding per kind, in the order of the
\* four searches.
DetectPii(text) ==
  (IF Has(text, "ssn") THEN <<"SSN">> ELSE <<>>)
  \o (IF Has(text, "cc") THEN <<"CREDIT_CARD">> ELSE <<>>)
  \o (IF Has(text, "email") THEN <<"EMAIL_ADDRESS">> ELSE <<>>)
  \o (IF Has(text, "phone") THEN <<"PHONE_NUMBER">> ELSE <<>>)

(***************************************************************************)
(* Redaction, guardrails.py 210-317.                                       *)
(***************************************************************************)

\* re.sub of one pattern over the serialized text.
Sub(its, kind, placeholder) ==
  [k \in DOMAIN its |->
     IF its[k].tok = kind THEN [its[k] EXCEPT !.tok = placeholder]
     ELSE its[k]]

\* The four substitutions with an email placeholder that reads like an SSN.
RegexSubLeaky(its) ==
  Sub(Sub(Sub(Sub(its, "ssn", "[SSN_REDACTED]"),
              "cc", "[CREDIT_CARD_REDACTED]"),
          "email", "ssn"),
      "phone", "[PHONE_REDACTED]")

\* Lines 298-312: the four substitutions, in order.
RegexSub(its) ==
  Sub(Sub(Sub(Sub(its, "ssn", "[SSN_REDACTED]"),
              "cc", "[CREDIT_CARD_REDACTED]"),
          "email", "[EMAIL_REDACTED]"),
      "phone", "[PHONE_REDACTED]")

\* What the DLP service answers when it works: each finding replaced by
\* the name of its info type (replace_with_info_type_config, lines 234-254).
DlpSub(its) ==
  Sub(Sub(Sub(Sub(its, "ssn", "[US_SOCIAL_SECURITY_NUMBER]"),
              "cc", "[CREDIT_CARD_NUMBER]"),
          "email", "[EMAIL_ADDRESS]"),
      "phone", "[PHONE_NUMBER]")

\* json.loads of a substituted json.dumps text succeeds unless a
\* placeholder took the place of a numeric value (no longer JSON) or of a
\* match that began inside an escape sequence: in "\nbob@x.co" the email
\* pattern matches from the n, leaving the invalid escape \[ behind.
JsonLoads(before, after) ==
  \A k \in DOMAIN before :
    before[k].pos \in {"num", "esc"} => after[k] = before[k]

NoExc == [type |-> "", msg |-> "", kinds |-> <<>>]
Exc(type, msg) == [type |-> type, msg |-> msg, kinds |-> <<>>]
Ok(v) == [ok |-> TRUE, value |-> v, exc |-> NoExc, tier |-> ""]
Failed(e) == [ok |-> FALSE, value |-> None, exc |-> e, tier |-> ""]

\* _redact_pii_regex, lines 292-317.
RedactPiiRegex(data) ==
  IF data.shape = "dict"
    THEN IF JsonLoads(data.items, RegexSub(data.items))
           THEN Ok(Dict(RegexSub(data.items)))
           ELSE Failed(Exc("JSONDecodeError", "Expecting value"))
    ELSE Ok(Str(PyStr([data EXCEPT !.items = RegexSub(data.items)])))

\* What the DLP call of lines 260-269 can do.
DlpOutcomes == {"ok", "request_error", "read_error", "malformed", "empty"}

\* Lines 225-275, the body of the try: the value returned, or FALSE in .ok
\* when any statement of the body raised.
DlpAttempt(data, answer) ==
  CASE answer \in {"request_error", "read_error"} ->
         Failed(Exc("DlpError", answer))
    [] answer = "ok" ->
         IF data.shape = "dict"
           THEN IF JsonLoads(data.items, DlpSub(data.items))
                  THEN Ok(Dict(DlpSub(data.items)))
                  ELSE Failed(Exc("JSONDecodeError", "Expecting value"))
           ELSE Ok(Str(PyStr([data EXCEPT !.items = DlpSub(data.items)])))
    [] answer = "malformed" ->
         IF data.shape = "dict"
           THEN Failed(Exc("JSONDecodeError", "Expecting value"))
           ELSE Ok(Str(<<"garbage">>))
    [] answer = "empty" ->
         IF data.shape = "dict"
           THEN Failed(Exc("JSONDecodeError", "Expecting value"))
           ELSE Ok(Str(<<>>))

\* The except clause of lines 277-279 missing: a failure of the service
\* reaches the caller.
FallbackMissing(attempt, data) == attempt

\* Lines 277-279: except Exception -> _redact_pii_regex(data).
Fallback(attempt, data) ==
  IF attempt.ok THEN [attempt EXCEPT !.tier = "dlp"]
  ELSE [RedactPiiRegex(data) EXCEPT !.tier = "regex"]

\* _redact_pii_gcp, lines 221-279.
RedactPiiGcp(data, configured, answer) ==
  IF ~configured
    THEN [RedactPiiRegex(data) EXCEPT !.tier = "regex"]
    ELSE Fallback(DlpAttempt(data, answer), data)


(***************************************************************************)
(* The protected handler: validate_input(validate_output(track_invocation( *)
(* handler))), as the agents stack the decorators (intake-processor        *)
(* main.py 57-61, prioritization-scorer main.py 61-65).                    *)
(***************************************************************************)

\* Sample payloads a caller passes.
InputPayloads ==
  { None,
    Dict(<<>>),
    Str(<<"plain">>),
    Str(<<"plain", "ssn">>),
    Str(<<"inj">>),
    Dict(<<SVal("inj"), SVal("email")>>),
    Dict(<<NVal("phone")>>) }

NoKw == [k \in {} |-> None]
Kw1(name, v) == [k \in {name} |-> v]
Kw2(v, w) == [k \in {"input_data", "request"} |->
                IF k = "input_data" THEN v ELSE w]

\* The ways a payload reaches the wrapper: handler(self, payload),
\* handler(payload) as in batch_score (prioritization-scorer main.py 319),
\* handler(input_data=payload), handler(request=payload) as the web
\* framework calls an endpoint, and both keywords.
Calls ==
  {[args |-> <<SelfObj, p>>, kwargs |-> NoKw] : p \in InputPayloads}
  \cup {[args |-> <<p>>, kwargs |-> NoKw] : p \in InputPayloads}
  \cup {[args |-> <<>>, kwargs |-> Kw1("input_data", p)] : p \in InputPayloads}
  \cup {[args |-> <<>>, kwargs |-> Kw1("request", p)] : p \in InputPayloads}
  \cup {[args |-> <<>>, kwargs |-> Kw2(p, q)] :
          p \in {None, Dict(<<>>), Str(<<"plain">>)},
          q \in {Str(<<"plain">>), Str(<<"plain", "ssn">>), Str(<<"inj">>)}}

\* What a handler can do: return one of these values or raise.
Results ==
  { None,
    Dict(<<SVal("plain")>>),
    Str(<<"toxic">>),
    Dict(<<SVal("ssn")>>),
    Str(<<"toxic", "email", "ssn", "plain">>),
    Dict(<<NVal("phone")>>) }

HandlerErrors == {Exc("RuntimeError", "boom"), Exc("KeyError", "")}

\* max_length arguments tried.
LengthLimits == {NoLimit, Limit(24)}

PoliciesIn ==
  [check_prompt_injection : BOOLEAN, check_pii : BOOLEAN,
   redact_pii : BOOLEAN, max_length : LengthLimits]

PoliciesOut ==
  [check_toxicity : BOOLEAN, check_pii : BOOLEAN,
   redact_pii : BOOLEAN, max_length : LengthLimits]

NoArgs == [args |-> <<>>, kwargs |-> NoKw]
NotInvoked == [args |-> <<>>, kwargs |-> NoKw, returned |-> None]
NoOutcome == [kind |-> "none", value |-> None, exc |-> NoExc]
Return(v) == [kind |-> "return", value |-> v, exc |-> NoExc]
Raise(e) == [kind |-> "raise", value |-> None, exc |-> e]

\* The ValueErrors of guardrails.py, by message.
InputTooLong == Exc("ValueError", "Input exceeds maximum length")
InjectionDetected ==
  Exc("ValueError", "Potential prompt injection detected in input")
PiiInInput(kinds) ==
  [type |-> "ValueError", msg |-> "PII detected in input", kinds |-> kinds]
OutputTooLong == Exc("ValueError", "Output exceeds maximum length")
ToxicOutput == Exc("ValueError", "Toxic content detected in agent output")
PiiInOutput(kinds) ==
  [type |-> "ValueError", msg |-> "PII detected in output", kinds |-> kinds]

\* kwargs.get(name)
Get(kw, name) == IF name \in DOMAIN kw THEN kw[name] ELSE None

\* Lines 48-51: the payload the wrapper validates.
Extract(a, kw) ==
  IF Len(a) > 1 THEN a[2]
  ELSE IF Truthy(Get(kw, "input_data")) THEN Get(kw, "input_data")
       ELSE Get(kw, "request")

\* Lines 77-83: the redacted payload put back into args / kwargs.
WriteBack(a, kw, v) ==
  IF Len(a) > 1
    THEN [args |-> <<a[1], v>> \o SubSeq(a, 3, Len(a)), kwargs |-> kw]
    ELSE IF "input_data" \in DOMAIN kw
           THEN [args |-> a, kwargs |-> [kw EXCEPT !["input_data"] = v]]
           ELSE IF "request" \in DOMAIN kw
                  THEN [args |-> a, kwargs |-> [kw EXCEPT !["request"] = v]]
                  ELSE [args |-> a, kwargs |-> kw]

\* `if max_length and len(text) > max_length`, lines 61 and 122.
TooLong(limit, v) == limit.set /\ limit.val # 0 /\ PyLen(v) > limit.val

\* What a delivery that fails raises inside the client library.
SinkError == Exc("ServiceUnavailable", "503 failed to connect")

\* What this invocation loses when the backend is in state s.
Lost(s, what) == IF s = "down" THEN what ELSE {}

\* monitoring.py 73-95: _log_invocation builds the entry and hands it to
\* logger.info; the logging framework delivers it and keeps a failure of
\* its handlers to itself.
LogInvocation(s) == NoExc

\* _send_invocation_metrics without its try: the failure of
\* create_time_series leaves the method.
SendInvocationMetricsUnguarded(s) == IF s = "down" THEN SinkError ELSE NoExc

\* monitoring.py 97-115: both _write_time_series calls are inside a try
\* whose except clause logs a warning; nothing leaves the method.
SendInvocationMetrics(s) == NoExc

\* monitoring.py 209-216: create_time_series is inside a try whose except
\* clause logs a warning; nothing leaves record_metric.
RecordMetric(s) == NoExc

\* guardrails.py 349-363: the body of _log_output_metrics is inside a try
\* whose except clause logs at debug level.
LogOutputMetrics(s) == NoExc

\* monitoring.py 56-68: what the finally block raises, if anything.
FinallyRaises(s) ==
  IF LogInvocation(s) # NoExc THEN LogInvocation(s)
  ELSE SendInvocationMetrics(s)

\* The input checks in another order: length, PII, injection.
InputStageAfterSwapped(stage) ==
  CASE stage = "start" -> "vi_length"
    [] stage = "vi_length" -> "vi_pii"
    [] stage = "vi_pii" -> "vi_injection"
    [] stage = "vi_injection" -> "tr_enter"

\* The order of the statements of validate_input's wrapper, lines 60-89:
\* length, injection, PII, then func(*args, **kwargs).
InputStageAfter(stage) ==
  CASE stage = "start" -> "vi_length"
    [] stage = "vi_length" -> "vi_injection"
    [] stage = "vi_injection" -> "vi_pii"
    [] stage = "vi_pii" -> "tr_enter"

\* track_invocation's wrapper with `except Exception: pass` in place of
\* lines 51-54: the failure is swallowed.
TrackRaisesNothing(e) == NoExc

\* monitoring.py 51-54: the except clause re-raises the same exception.
TrackRaises(e) == e

\* monitoring.py 52: error = str(e)
ErrStr(e) == e.msg

\* Raised into a handler that is cancelled or interrupted:
\* asyncio.CancelledError, a BaseException that is not an Exception.
CancelledError == Exc("CancelledError", "")

\* monitoring.py 51: `except Exception as e` takes an exception unless it
\* derives from BaseException only.
Caught(e) == e # NoExc /\ e.type # "CancelledError"

NoTier == [name |-> "", answer |-> ""]

\* No redactor has been applied.
NotRedacted == [ok |-> FALSE, value |-> None, exc |-> NoExc, tier |-> ""]

\* No coroutine is outstanding.
AwaitIdle ==
  /\ coro = "none"
  /\ final = NoOutcome

RedactIdle ==
  /\ rpc = "idle"
  /\ rtier = NoTier
  /\ rdata = None
  /\ rout = NotRedacted
  /\ rout2 = NotRedacted

\* The backend is reachable and nothing was lost.
SinkIdle ==
  /\ sink = "up"
  /\ undelivered = {}
  /\ handlerExc = NoExc

ScanIdle ==
  /\ scanText = <<>>
  /\ scanOut = <<>>

QuotaIdle == raisedAt = [i \in Identifiers |-> <<>>]

\* The clients of the registry and the names they register.
Clients == {"c1", "c2"}
AgentNames == {"intake", "scorer"}

\* No document under a name (DocumentSnapshot.exists is False).
NoDoc == [owner |-> "", registered_at |-> 0 - 1]

NoRequest ==
  [pc |-> "idle", path |-> "", name |-> "", fresh |-> FALSE,
   existed |-> FALSE, exc |-> NoExc, status |-> 0, body |-> ""]

\* An empty collection and no request in progress.
RegistryIdle ==
  /\ agents = [n \in AgentNames |-> NoDoc]
  /\ reg = [c \in Clients |-> NoRequest]

\* The callers of measured functions and the functions' names.
Callers == {"k1", "k2"}
SpanNames == {"score", "rank"}

NoSpan ==
  [pc |-> "idle", name |-> "", began |-> 0, found |-> FALSE,
   start |-> 0, kind |-> "", duration |-> 0, ended |-> 0]

\* Line 260: self._start_times = {}
TrackerIdle ==
  /\ start_times = << >>
  /\ span = [k \in Callers |-> NoSpan]

\* No invocation is under way.
CallIdle ==
  /\ AwaitIdle
  /\ RedactIdle
  /\ SinkIdle
  /\ ScanIdle
  /\ QuotaIdle
  /\ RegistryIdle
  /\ TrackerIdle
  /\ cpc = "idle"
  /\ args = <<>>
  /\ kwargs = NoKw
  /\ input_data = None
  /\ result = None
  /\ pending = NoExc
  /\ call0 = NoArgs
  /\ trace = <<>>
  /\ handlerCalls = 0
  /\ handlerGot = NotInvoked
  /\ logs = <<>>
  /\ metricsSent = 0
  /\ redactions = <<>>
  /\ outcome = NoOutcome

ChainInit ==
  /\ CallIdle
  /\ policyIn \in PoliciesIn
  /\ policyOut \in PoliciesOut
  /\ dlp_configured \in BOOLEAN

\* The caller invokes the decorated handler.
Invoke(c) ==
  /\ cpc = "idle"
  /\ cpc' = "vi_extract"
  /\ args' = c.args
  /\ kwargs' = c.kwargs
  /\ call0' = c
  /\ input_data' = None
  /\ result' = None
  /\ pending' = NoExc
  /\ trace' = <<>>
  /\ handlerCalls' = 0
  /\ handlerGot' = NotInvoked
  /\ logs' = <<>>
  /\ metricsSent' = 0
  /\ redactions' = <<>>
  /\ outcome' = NoOutcome
  /\ UNCHANGED <<policyIn, policyOut, dlp_configured>>
  /\ UNCHANGED rlVars
  /\ UNCHANGED <<awVars, rdVars>>
  /\ undelivered' = {}
  /\ handlerExc' = NoExc
  /\ UNCHANGED <<sink, xtVars>>

\* validate_input lines 47-55: find the payload; without one, call through.
VI_Extract ==
  /\ cpc = "vi_extract"
  /\ input_data' = Extract(args, kwargs)
  /\ cpc' = IF Truthy(Extract(args, kwargs))
              THEN InputStageAfter("start") ELSE "tr_enter"
  /\ UNCHANGED <<policyIn, policyOut, dlp_configured, args, kwargs, result,
                 pending, call0, trace, handlerCalls, handlerGot, logs,
                 metricsSent, redactions, outcome>>
  /\ UNCHANGED rlVars
  /\ UNCHANGED <<awVars, rdVars>>
  /\ UNCHANGED <<snVars, xtVars>>

\* validate_input lines 60-62: the length check.
VI_Length ==
  /\ cpc = "vi_length"
  /\ trace' = IF policyIn.max_length.set /\ policyIn.max_length.val # 0
                THEN Append(trace, "input-length") ELSE trace
  /\ IF TooLong(policyIn.max_length, input_data)
       THEN cpc' = "done" /\ outcome' = Raise(InputTooLong)
       ELSE cpc' = InputStageAfter("vi_length") /\ UNCHANGED outcome
  /\ UNCHANGED <<policyIn, policyOut, dlp_configured, args, kwargs,
                 input_data, result, pending, call0, handlerCalls,
                 handlerGot, logs, metricsSent, redactions>>
  /\ UNCHANGED rlVars
  /\ UNCHANGED <<awVars, rdVars>>
  /\ UNCHANGED <<snVars, xtVars>>

\* validate_input lines 64-67: the prompt injection check.
VI_Injection ==
  /\ cpc = "vi_injection"
  /\ trace' = IF policyIn.check_prompt_injection
                THEN Append(trace, "injection") ELSE trace
  /\ IF policyIn.check_prompt_injection
          /\ HasPromptInjection(PyStr(input_data))
       THEN cpc' = "done" /\ outcome' = Raise(InjectionDetected)
       ELSE cpc' = InputStageAfter("vi_injection") /\ UNCHANGED outcome
  /\ UNCHANGED <<policyIn, policyOut, dlp_configured, args, kwargs,
                 input_data, result, pending, call0, handlerCalls,
                 handlerGot, logs, metricsSent, redactions>>
  /\ UNCHANGED rlVars
  /\ UNCHANGED <<awVars, rdVars>>
  /\ UNCHANGED <<snVars, xtVars>>

\* validate_input lines 69-86: the PII check, redacting or rejecting.
VI_Pii ==
  /\ cpc = "vi_pii"
  /\ trace' = IF policyIn.check_pii THEN Append(trace, "pii-in") ELSE trace
  /\ LET findings == DetectPii(PyStr(input_data)) IN
       IF policyIn.check_pii /\ findings # <<>>
         THEN IF policyIn.redact_pii
                THEN \E o \in DlpOutcomes :
                       LET r == RedactPiiGcp(input_data, dlp_configured, o)
                           w == WriteBack(args, kwargs, r.value)
                       IN /\ redactions' =
                               Append(redactions,
                                      [stage |-> "in", data |-> input_data,
                                       answer |-> IF dlp_configured
                                                    THEN o ELSE "",
                                       out |-> r])
                          /\ IF r.ok
                               THEN /\ input_data' = r.value
                                    /\ args' = w.args
                                    /\ kwargs' = w.kwargs
                                    /\ cpc' = InputStageAfter("vi_pii")
                                    /\ UNCHANGED outcome
                               ELSE /\ cpc' = "done"
                                    /\ outcome' = Raise(r.exc)
                                    /\ UNCHANGED <<input_data, args, kwargs>>
                ELSE /\ cpc' = "done"
                     /\ outcome' = Raise(PiiInInput(findings))
                     /\ UNCHANGED <<input_data, redactions, args, kwargs>>
         ELSE /\ cpc' = InputStageAfter("vi_pii")
              /\ UNCHANGED <<input_data, redactions, args, kwargs, outcome>>
  /\ UNCHANGED <<policyIn, policyOut, dlp_configured, result, pending,
                 call0, handlerCalls, handlerGot, logs, metricsSent>>
  /\ UNCHANGED rlVars
  /\ UNCHANGED <<awVars, rdVars>>
  /\ UNCHANGED <<snVars, xtVars>>

\* The order of the statements of validate_output's wrapper, lines 113-147:
\* falsy result, length, toxicity, PII, then return.
OutputStageAfter(stage) ==
  CASE stage = "returned" -> "vo_falsy"
    [] stage = "vo_falsy" -> "vo_length"
    [] stage = "vo_length" -> "vo_toxicity"
    [] stage = "vo_toxicity" -> "vo_pii"
    [] stage = "vo_pii" -> "vo_return"

\* validate_output line 113 calls down into track_invocation's wrapper,
\* monitoring.py 42-46.
TR_Enter ==
  /\ cpc = "tr_enter"
  /\ cpc' = "handler"
  /\ UNCHANGED <<policyIn, policyOut, dlp_configured, args, kwargs,
                 input_data, result, pending, call0, trace, handlerCalls,
                 handlerGot, logs, metricsSent, redactions, outcome>>
  /\ UNCHANGED rlVars
  /\ UNCHANGED <<awVars, rdVars>>
  /\ UNCHANGED <<snVars, xtVars>>

\* monitoring.py 47: func(*args, **kwargs), the handler itself: it returns a
\* value, having recorded a custom metric on the way as score_request does
\* (prioritization-scorer main.py 135), or raises.
Handler ==
  /\ cpc = "handler"
  /\ handlerCalls' = handlerCalls + 1
  /\ trace' = Append(trace, "handler")
  /\ \/ \E r \in Results :
          /\ result' = r
          /\ pending' = RecordMetric(sink)
          /\ handlerExc' = NoExc
          /\ handlerGot' = [args |-> args, kwargs |-> kwargs, returned |-> r]
     \/ \E e \in HandlerErrors :
          /\ pending' = e
          /\ handlerExc' = e
          /\ handlerGot' = [args |-> args, kwargs |-> kwargs,
                            returned |-> None]
          /\ UNCHANGED result
  /\ undelivered' = undelivered \cup Lost(sink, {"custom-metric"})
  /\ cpc' = "tr_finally"
  /\ UNCHANGED <<policyIn, policyOut, dlp_configured, args, kwargs,
                 input_data, call0, logs, metricsSent, redactions, outcome>>
  /\ UNCHANGED rlVars
  /\ UNCHANGED <<awVars, rdVars>>
  /\ UNCHANGED <<sink, xtVars>>

\* monitoring.py 48 or 52-53, then the finally block 56-68: one
\* _log_invocation and one _send_invocation_metrics; an exception leaving
\* the block would take the place of the result or of the handler's error.
TR_Finally ==
  /\ cpc = "tr_finally"
  /\ logs' = Append(logs,
               [success |-> pending = NoExc,
                hasError |-> Caught(pending),
                error |-> IF Caught(pending) THEN ErrStr(pending) ELSE ""])
  /\ metricsSent' = metricsSent + 1
  /\ undelivered' = undelivered \cup Lost(sink, {"log", "metric"})
  /\ pending' = IF FinallyRaises(sink) # NoExc
                  THEN FinallyRaises(sink) ELSE pending
  /\ cpc' = "tr_exit"
  /\ UNCHANGED <<policyIn, policyOut, dlp_configured, args, kwargs,
                 input_data, result, call0, trace, handlerCalls,
                 handlerGot, redactions, outcome>>
  /\ UNCHANGED rlVars
  /\ UNCHANGED <<awVars, rdVars>>
  /\ UNCHANGED <<sink, handlerExc, xtVars>>

\* monitoring.py 49 or 54: the wrapper returns the result or re-raises; an
\* exception passes through validate_output (line 113) and validate_input
\* (line 89), which catch nothing.
TR_Exit ==
  /\ cpc = "tr_exit"
  /\ IF pending # NoExc /\ TrackRaises(pending) # NoExc
       THEN /\ cpc' = "done"
            /\ outcome' = Raise(TrackRaises(pending))
            /\ UNCHANGED result
       ELSE /\ cpc' = OutputStageAfter("returned")
            /\ result' = IF pending # NoExc THEN None ELSE result
            /\ UNCHANGED outcome
  /\ UNCHANGED <<policyIn, policyOut, dlp_configured, args, kwargs,
                 input_data, pending, call0, trace, handlerCalls,
                 handlerGot, logs, metricsSent, redactions>>
  /\ UNCHANGED rlVars
  /\ UNCHANGED <<awVars, rdVars>>
  /\ UNCHANGED <<snVars, xtVars>>

\* validate_output lines 115-116: a falsy result is returned unchecked.
VO_Falsy ==
  /\ cpc = "vo_falsy"
  /\ IF ~Truthy(result)
       THEN cpc' = "done" /\ outcome' = Return(result)
       ELSE cpc' = OutputStageAfter("vo_falsy") /\ UNCHANGED outcome
  /\ UNCHANGED <<policyIn, policyOut, dlp_configured, args, kwargs,
                 input_data, result, pending, call0, trace, handlerCalls,
                 handlerGot, logs, metricsSent, redactions>>
  /\ UNCHANGED rlVars
  /\ UNCHANGED <<awVars, rdVars>>
  /\ UNCHANGED <<snVars, xtVars>>

\* validate_output lines 121-125: the length check.
VO_Length ==
  /\ cpc = "vo_length"
  /\ trace' = IF policyOut.max_length.set /\ policyOut.max_length.val # 0
                THEN Append(trace, "output-length") ELSE trace
  /\ IF TooLong(policyOut.max_length, result)
       THEN cpc' = "done" /\ outcome' = Raise(OutputTooLong)
       ELSE cpc' = OutputStageAfter("vo_length") /\ UNCHANGED outcome
  /\ UNCHANGED <<policyIn, policyOut, dlp_configured, args, kwargs,
                 input_data, result, pending, call0, handlerCalls,
                 handlerGot, logs, metricsSent, redactions>>
  /\ UNCHANGED rlVars
  /\ UNCHANGED <<awVars, rdVars>>
  /\ UNCHANGED <<snVars, xtVars>>

\* validate_output lines 127-130: the toxicity check.
VO_Toxicity ==
  /\ cpc = "vo_toxicity"
  /\ trace' = IF policyOut.check_toxicity
                THEN Append(trace, "toxicity") ELSE trace
  /\ IF policyOut.check_toxicity /\ IsToxic(PyStr(result))
       THEN cpc' = "done" /\ outcome' = Raise(ToxicOutput)
       ELSE cpc' = OutputStageAfter("vo_toxicity") /\ UNCHANGED outcome
  /\ UNCHANGED <<policyIn, policyOut, dlp_configured, args, kwargs,
                 input_data, result, pending, call0, handlerCalls,
                 handlerGot, logs, metricsSent, redactions>>
  /\ UNCHANGED rlVars
  /\ UNCHANGED <<awVars, rdVars>>
  /\ UNCHANGED <<snVars, xtVars>>

\* validate_output lines 132-141: the PII check, redacting or rejecting.
VO_Pii ==
  /\ cpc = "vo_pii"
  /\ trace' = IF policyOut.check_pii THEN Append(trace, "pii-out") ELSE trace
  /\ LET findings == DetectPii(PyStr(result)) IN
       IF policyOut.check_pii /\ findings # <<>>
         THEN IF policyOut.redact_pii
                THEN \E o \in DlpOutcomes :
                       LET r == RedactPiiGcp(result, dlp_configured, o)
                       IN /\ redactions' =
                               Append(redactions,
                                      [stage |-> "out", data |-> result,
                                       answer |-> IF dlp_configured
                                                    THEN o ELSE "",
                                       out |-> r])
                          /\ IF r.ok
                               THEN /\ result' = r.value
                                    /\ cpc' = OutputStageAfter("vo_pii")
                                    /\ UNCHANGED outcome
                               ELSE /\ cpc' = "done"
                                    /\ outcome' = Raise(r.exc)
                                    /\ UNCHANGED result
                ELSE /\ cpc' = "done"
                     /\ outcome' = Raise(PiiInOutput(findings))
                     /\ UNCHANGED <<result, redactions>>
         ELSE /\ cpc' = OutputStageAfter("vo_pii")
              /\ UNCHANGED <<result, redactions, outcome>>
  /\ UNCHANGED <<policyIn, policyOut, dlp_configured, args, kwargs,
                 input_data, pending, call0, handlerCalls, handlerGot, logs,
                 metricsSent>>
  /\ UNCHANGED rlVars
  /\ UNCHANGED <<awVars, rdVars>>
  /\ UNCHANGED <<snVars, xtVars>>

\* validate_output lines 143-147: _log_output_metrics, return result.
VO_Return ==
  /\ cpc = "vo_return"
  /\ cpc' = "done"
  /\ outcome' = IF LogOutputMetrics(sink) # NoExc
                  THEN Raise(LogOutputMetrics(sink)) ELSE Return(result)
  /\ UNCHANGED <<policyIn, policyOut, dlp_configured, args, kwargs,
                 input_data, result, pending, call0, trace, handlerCalls,
                 handlerGot, logs, metricsSent, redactions>>
  /\ UNCHANGED rlVars
  /\ UNCHANGED <<awVars, rdVars>>
  /\ UNCHANGED <<snVars, xtVars>>

\* The caller has the value or the exception; the wrappers' frames are gone.
Deliver ==
  /\ cpc = "done"
  /\ cpc' = "idle"
  /\ args' = <<>>
  /\ kwargs' = NoKw
  /\ call0' = NoArgs
  /\ input_data' = None
  /\ result' = None
  /\ pending' = NoExc
  /\ trace' = <<>>
  /\ handlerCalls' = 0
  /\ handlerGot' = NotInvoked
  /\ logs' = <<>>
  /\ metricsSent' = 0
  /\ redactions' = <<>>
  /\ outcome' = NoOutcome
  /\ UNCHANGED <<policyIn, policyOut, dlp_configured>>
  /\ UNCHANGED rlVars
  /\ UNCHANGED <<awVars, rdVars>>
  /\ undelivered' = {}
  /\ handlerExc' = NoExc
  /\ UNCHANGED <<sink, xtVars>>

(***************************************************************************)
(* Specifications.                                                         *)
(***************************************************************************)

\* The chain at rest, for the specifications of the rate limiter alone.
ChainIdle ==
  /\ ChainInit
  /\ policyIn = [check_prompt_injection |-> TRUE, check_pii |-> TRUE,
                 redact_pii |-> FALSE, max_length |-> NoLimit]
  /\ policyOut = [check_toxicity |-> TRUE, check_pii |-> TRUE,
                  redact_pii |-> TRUE, max_length |-> NoLimit]
  /\ dlp_configured = FALSE

\* The rate limiter at rest, for the specification of the chain alone.
LimiterIdle ==
  /\ RLInit
  /\ max_requests = 1
  /\ time_window = 1

\* Sequential calls of check_limit.
SpecLimiterInit == RLInit /\ ChainIdle
SpecLimiterNext == Tick \/ SeqCall
SpecLimiter == SpecLimiterInit /\ [][SpecLimiterNext]_vars

\* Concurrent calls of check_limit.
SpecRaceInit == RLInit /\ ChainIdle
SpecRaceNext ==
  \/ Tick
  \/ \E t \in Threads, i \in Identifiers : Enter(t, i)
  \/ \E t \in Threads : TestPresent(t)
  \/ \E t \in Threads : Comprehend(t)
  \/ \E t \in Threads : StorePruned(t)
  \/ \E t \in Threads : StoreEmpty(t)
  \/ \E t \in Threads : ReturnFalse(t)
  \/ \E t \in Threads : PassLimit(t)
  \/ \E t \in Threads : AppendReturnTrue(t)
SpecRace == SpecRaceInit /\ [][SpecRaceNext]_vars

\* Invocations of a protected handler, one at a time.
SpecChainInit == ChainInit /\ LimiterIdle
SpecChainNext ==
  \/ \E c \in Calls : Invoke(c)
  \/ VI_Extract
  \/ VI_Length
  \/ VI_Injection
  \/ VI_Pii
  \/ TR_Enter
  \/ Handler
  \/ TR_Finally
  \/ TR_Exit
  \/ VO_Falsy
  \/ VO_Length
  \/ VO_Toxicity
  \/ VO_Pii
  \/ VO_Return
  \/ Deliver
SpecChain == SpecChainInit /\ [][SpecChainNext]_vars

(***************************************************************************)
(* Claims about the rate limiter.                                          *)
(***************************************************************************)

\* C1: under any interleaving of concurrent check_limit calls on one
\* identifier, the calls that returned True with a timestamp inside one
\* trailing time_window never number more than max_requests.
C1_AdmittedWithinLimit ==
  \A i \in Identifiers : \A t \in 0..MaxClock :
    InWindow(i, t, time_window) <= max_requests

\* The smallest timestamp of a non-empty list.
Earliest(list) ==
  CHOOSE ts \in {list[k] : k \in DOMAIN list} :
    \A k \in DOMAIN list : ts <= list[k]

\* C2: with sequential calls, a call made while max_requests admitted calls
\* of the identifier lie less than time_window back returns False, and a
\* call made once the earliest recorded timestamp is more than time_window
\* old returns True again.
C2_RejectThenReadmit ==
  last.done =>
    /\ (last.inWindow >= max_requests => ~last.result)
    /\ (last.pre # <<>> /\ last.now - Earliest(last.pre) > time_window
          => last.result)

\* A full window whose earliest entry has aged out: the call is admitted.
C2_Witness ==
  /\ last.done
  /\ last.result
  /\ Len(last.pre) = max_requests
  /\ last.now - Earliest(last.pre) > time_window

\* C10: a check_limit call that returns False leaves the identifier's list
\* equal to the pruned list from before the call; the attempt is not
\* recorded.
C10_RejectionNotRecorded ==
  (last.done /\ ~last.result) =>
    /\ last.id \in DOMAIN requests
    /\ requests[last.id] = Prune(last.pre, last.now, time_window)

\* A call was rejected against a full window.
C10_Witness ==
  /\ last.done
  /\ ~last.result
  /\ Len(last.pre) >= max_requests
  /\ last.inWindow >= max_requests


(***************************************************************************)
(* Claims about the protected handler.                                     *)
(***************************************************************************)

InputRejections ==
  {"Input exceeds maximum length",
   "Potential prompt injection detected in input",
   "PII detected in input"}

OutputRejections ==
  {"Output exceeds maximum length",
   "Toxic content detected in agent output",
   "PII detected in output"}

RejectedAtInput ==
  /\ outcome.kind = "raise"
  /\ outcome.exc.type = "ValueError"
  /\ outcome.exc.msg \in InputRejections

RejectedAtOutput ==
  /\ outcome.kind = "raise"
  /\ outcome.exc.type = "ValueError"
  /\ outcome.exc.msg \in OutputRejections

\* C3: every invocation of the protected handler produces exactly one
\* invocation record (one _log_invocation and one metrics emission),
\* whatever its outcome.
C3_ExactlyOneRecord ==
  cpc = "done" => (Len(logs) = 1 /\ metricsSent = 1)

\* The payloads a call carries, wherever they are passed.
CarriedPayloads(c) ==
  {c.args[k] : k \in {j \in DOMAIN c.args : c.args[j] # SelfObj}}
  \cup {c.kwargs[n] : n \in DOMAIN c.kwargs}

\* Payload v fails an input stage the policy enables.
FailsInputStage(v) ==
  \/ policyIn.max_length.set /\ PyLen(v) > policyIn.max_length.val
  \/ policyIn.check_prompt_injection /\ Has(PyStr(v), "inj")
  \/ /\ policyIn.check_pii
     /\ ~policyIn.redact_pii
     /\ \E t \in {"ssn", "cc", "email", "phone"} : Has(PyStr(v), t)

\* C4: when an input stage rejects, the handler is not invoked and no later
\* stage runs; the handler is invoked only after every enabled input stage
\* has passed, that is, never on a payload that fails one of them.
C4_InputGatesHandler ==
  /\ RejectedAtInput =>
       /\ handlerCalls = 0
       /\ trace # <<>>
       /\ trace[Len(trace)] \in {"input-length", "injection", "pii-in"}
  /\ (handlerCalls > 0 /\ Cardinality(CarriedPayloads(call0)) = 1) =>
       \A v \in CarriedPayloads(call0) : ~FailsInputStage(v)

\* C5: with check_prompt_injection set, a call whose payload matches an
\* injection pattern is rejected and the handler does not execute, however
\* the payload is passed (second positional, sole positional, keyword).
C5_InjectionRejectedHoweverPassed ==
  ( /\ cpc # "idle"
    /\ policyIn.check_prompt_injection
    /\ Cardinality(CarriedPayloads(call0)) = 1
    /\ \A v \in CarriedPayloads(call0) : HasPromptInjection(PyStr(v)) )
  => /\ handlerCalls = 0
     /\ cpc = "done" =>
          (outcome = Raise(InjectionDetected) \/ outcome = Raise(InputTooLong))

StageIndex(stage) ==
  CASE stage = "input-length" -> 1
    [] stage = "injection" -> 2
    [] stage = "pii-in" -> 3
    [] stage = "handler" -> 4
    [] stage = "output-length" -> 5
    [] stage = "toxicity" -> 6
    [] stage = "pii-out" -> 7

\* The payload the stages of this invocation examine.
Validated == Extract(call0.args, call0.kwargs)

\* C6: the stages of one invocation run in the order input-length,
\* injection, PII-in, handler, output-length, toxicity, PII-out, each at
\* most once; a payload (a result) that violates several input (output)
\* stages is rejected with the kind of the earliest one.
C6_StageOrder ==
  /\ \A j, k \in DOMAIN trace :
       j < k => StageIndex(trace[j]) < StageIndex(trace[k])
  /\ (cpc = "done" /\ Truthy(Validated)) =>
       LET tooLong == /\ policyIn.max_length.set
                      /\ PyLen(Validated) > policyIn.max_length.val
           injected == /\ policyIn.check_prompt_injection
                       /\ Has(PyStr(Validated), "inj")
           pii == /\ policyIn.check_pii
                  /\ ~policyIn.redact_pii
                  /\ \E t \in {"ssn", "cc", "email", "phone"} :
                        Has(PyStr(Validated), t)
       IN /\ tooLong => outcome = Raise(InputTooLong)
          /\ (~tooLong /\ injected) => outcome = Raise(InjectionDetected)
          /\ (~tooLong /\ ~injected /\ pii) =>
               (outcome.kind = "raise"
                  /\ outcome.exc.msg = "PII detected in input")
  /\ (cpc = "done" /\ handlerCalls = 1 /\ pending = NoExc
        /\ Truthy(handlerGot.returned)) =>
       LET r == handlerGot.returned
           tooLong == /\ policyOut.max_length.set
                      /\ PyLen(r) > policyOut.max_length.val
           toxic == policyOut.check_toxicity /\ Has(PyStr(r), "toxic")
           pii == /\ policyOut.check_pii
                  /\ ~policyOut.redact_pii
                  /\ \E t \in {"ssn", "cc", "email", "phone"} :
                        Has(PyStr(r), t)
       IN /\ tooLong => outcome = Raise(OutputTooLong)
          /\ (~tooLong /\ toxic) => outcome = Raise(ToxicOutput)
          /\ (~tooLong /\ ~toxic /\ pii) =>
               (outcome.kind = "raise"
                  /\ outcome.exc.msg = "PII detected in output")

\* A payload that is too long, matches an injection pattern and holds PII
\* was rejected for its length.
C6_Witness ==
  /\ cpc = "done"
  /\ outcome = Raise(InputTooLong)
  /\ policyIn.check_prompt_injection
  /\ policyIn.check_pii
  /\ Has(PyStr(Validated), "inj")
  /\ Has(PyStr(Validated), "email")
  /\ trace = <<"input-length">>

\* Where the wrapper found the payload it validates.
SlotValue(got, c) ==
  IF Len(c.args) > 1 THEN got.args[2]
  ELSE IF Truthy(Get(c.kwargs, "input_data"))
         THEN got.kwargs["input_data"]
         ELSE got.kwargs["request"]

PiiFoundToRedact ==
  /\ policyIn.check_pii
  /\ policyIn.redact_pii
  /\ Truthy(Validated)
  /\ \E t \in {"ssn", "cc", "email", "phone"} : Has(PyStr(Validated), t)
  /\ ~(policyIn.max_length.set /\ PyLen(Validated) > policyIn.max_length.val)
  /\ ~(policyIn.check_prompt_injection /\ Has(PyStr(Validated), "inj"))

\* C7: with check_pii and redact_pii set, when PII is found in the input
\* the handler still executes exactly once and receives the redacted
\* payload, never the original, however the payload reaches the wrapper.
C7_HandlerGetsRedacted ==
  (cpc \in {"tr_finally", "tr_exit", "done"} /\ PiiFoundToRedact) =>
     /\ handlerCalls = 1
     /\ SlotValue(handlerGot, call0) # Validated
     /\ \A t \in {"ssn", "cc", "email", "phone"} :
          ~Has(PyStr(SlotValue(handlerGot, call0)), t)

C9_SilentFallback ==
  \A k \in DOMAIN redactions :
    LET c == redactions[k]
        unavailable ==
          \/ c.answer = ""
          \/ c.answer \in {"request_error", "read_error"}
          \/ (c.data.shape = "dict" /\ c.answer \in {"malformed", "empty"})
    IN /\ unavailable =>
            /\ c.out.ok = RedactPiiRegex(c.data).ok
            /\ c.out.value = RedactPiiRegex(c.data).value
            /\ c.out.exc = RedactPiiRegex(c.data).exc
       /\ ~c.out.ok => ~RedactPiiRegex(c.data).ok

\* The service failed on the request and the regex tier redacted.
C9_Witness ==
  \E k \in DOMAIN redactions :
    /\ redactions[k].answer = "request_error"
    /\ redactions[k].out.ok
    /\ redactions[k].out.value = Str(<<"plain", "[SSN_REDACTED]">>)


(***************************************************************************)
(* RateLimiter.__call__, guardrails.py 412-426: the decorator around a     *)
(* protected handler.  The limiter decides first; an admitted call goes on *)
(* into validate_input's wrapper.                                          *)
(***************************************************************************)

\* The decorator giving the quota back when the wrapped function raised.
AfterRaiseRefunded(list, t) == SelectSeq(list, LAMBDA ts : ts # t)

\* Line 423, `return func(*args, **kwargs)`, has no try around it: when
\* func raises, the identifier's list stays as check_limit left it.
AfterRaise(list, t) == list

\* Line 421: raise ValueError(f"Rate limit exceeded for {identifier}")
RateLimitExceeded(i) ==
  [type |-> "ValueError", msg |-> "Rate limit exceeded", kinds |-> <<i>>]

\* The decorator calling the wrapped function whatever check_limit said.
CallsThroughAlways(verdict) == TRUE

\* Line 420: `if not self.check_limit(identifier): raise`, so line 423
\* is reached only on a True verdict.
CallsThrough(verdict) == verdict

\* Calls made through the decorator.
LimitedCalls ==
  { [args |-> <<>>, kwargs |-> Kw1("input_data", Str(<<"plain">>))],
    [args |-> <<>>, kwargs |-> Kw1("input_data", Str(<<"inj">>))],
    [args |-> <<SelfObj, Str(<<"plain", "ssn">>)>>, kwargs |-> NoKw] }

\* Lines 416-423: wrapper(*args, **kwargs) with identifier_func giving i.
LimitedInvoke(i, c) ==
  LET t == clock
      pruned == IF i \in DOMAIN requests
                  THEN Prune(requests[i], t, time_window)
                  ELSE <<>>
      verdict == ~AtLimit(pruned, max_requests)
  IN  /\ cpc = "idle"
      /\ \A th \in Threads : pc[th] = "idle"
      /\ calls < MaxCalls
      /\ calls' = calls + 1
      /\ last' = Returned(i, t, verdict)
      /\ IF verdict
           THEN /\ requests' = Store(requests, i, AdmittedList(pruned, t))
                /\ admitted' = [admitted EXCEPT ![i] = Append(@, t)]
           ELSE /\ requests' = Store(requests, i, RejectedList(pruned, t))
                /\ UNCHANGED admitted
      /\ IF CallsThrough(verdict)
           THEN cpc' = "vi_extract" /\ outcome' = NoOutcome
           ELSE cpc' = "done" /\ outcome' = Raise(RateLimitExceeded(i))
      /\ args' = c.args
      /\ kwargs' = c.kwargs
      /\ call0' = c
      /\ input_data' = None
      /\ result' = None
      /\ pending' = NoExc
      /\ trace' = <<>>
      /\ handlerCalls' = 0
      /\ handlerGot' = NotInvoked
      /\ logs' = <<>>
      /\ metricsSent' = 0
      /\ redactions' = <<>>
      /\ UNCHANGED <<max_requests, time_window, clock, pc, ident, now,
                     filtered>>
      /\ UNCHANGED <<policyIn, policyOut, dlp_configured>>
      /\ UNCHANGED <<awVars, rdVars>>
      /\ undelivered' = {}
      /\ handlerExc' = NoExc
      /\ UNCHANGED <<sink, xtVars>>

\* The rate-limited handler under the agents' two decorations.
SpecLimitedInit ==
  /\ RLInit
  /\ time_window = 1
  /\ ChainInit
  /\ policyIn \in {[check_prompt_injection |-> TRUE, check_pii |-> TRUE,
                    redact_pii |-> r, max_length |-> NoLimit] :
                     r \in BOOLEAN}
  /\ policyOut = [check_toxicity |-> TRUE, check_pii |-> TRUE,
                  redact_pii |-> TRUE, max_length |-> NoLimit]
  /\ ~dlp_configured

SpecLimitedNext ==
  \/ Tick
  \/ \E i \in Identifiers, c \in LimitedCalls : LimitedInvoke(i, c)
  \/ VI_Extract
  \/ VI_Length
  \/ VI_Injection
  \/ VI_Pii
  \/ TR_Enter
  \/ Handler
  \/ TR_Finally
  \/ TR_Exit
  \/ VO_Falsy
  \/ VO_Length
  \/ VO_Toxicity
  \/ VO_Pii
  \/ VO_Return
  \/ Deliver

SpecLimited == SpecLimitedInit /\ [][SpecLimitedNext]_vars

RateLimited ==
  /\ outcome.kind = "raise"
  /\ \E i \in Identifiers : outcome.exc = RateLimitExceeded(i)

\* C11: when check_limit returns False the wrapped function is not invoked
\* at all (no stage of the chain, no handler, no record) and the caller
\* gets the rate-limit rejection; that rejection reaches a caller only
\* then, so it is never mistaken for a rejection of the chain or for a
\* handler failure.
C11_RateLimitFirst ==
  /\ (cpc # "idle" /\ last.done /\ ~last.result) =>
       /\ cpc = "done"
       /\ outcome = Raise(RateLimitExceeded(last.id))
       /\ handlerCalls = 0
       /\ trace = <<>>
       /\ logs = <<>>
  /\ (cpc = "done" /\ last.done /\ last.result) =>
       /\ ~RateLimited
       /\ (RejectedAtInput \/ RejectedAtOutput \/ pending # NoExc) =>
            \A i \in Identifiers : outcome.exc.msg # RateLimitExceeded(i).msg

\* A second call inside the window was turned away before the chain.
C11_Witness ==
  /\ cpc = "done"
  /\ calls >= 2
  /\ ~last.result
  /\ outcome = Raise(RateLimitExceeded("user-1"))
  /\ handlerCalls = 0


(***************************************************************************)
(* Claims about the PII stages and the redactors.                          *)
(***************************************************************************)

\* C12: with check_pii set and redact_pii not set, an input in which the
\* PII stage finds PII is rejected with the PII rejection, the handler does
\* not execute, and the rejection lists exactly the kinds found, named SSN,
\* CREDIT_CARD, EMAIL, PHONE (["EMAIL"] for an email-only finding), and
\* never the matched text.
C12_PiiRejectionListsKinds ==
  LET text == PyStr(Validated)
      claimed ==
        (IF Has(text, "ssn") THEN <<"SSN">> ELSE <<>>)
        \o (IF Has(text, "cc") THEN <<"CREDIT_CARD">> ELSE <<>>)
        \o (IF Has(text, "email") THEN <<"EMAIL">> ELSE <<>>)
        \o (IF Has(text, "phone") THEN <<"PHONE">> ELSE <<>>)
  IN ( /\ cpc = "done"
       /\ policyIn.check_pii
       /\ ~policyIn.redact_pii
       /\ trace # <<>>
       /\ trace[Len(trace)] = "pii-in"
       /\ claimed # <<>> )
     => /\ outcome.kind = "raise"
        /\ outcome.exc.msg = "PII detected in input"
        /\ handlerCalls = 0
        /\ outcome.exc.kinds = claimed
        /\ \A k \in DOMAIN outcome.exc.kinds :
             outcome.exc.kinds[k] \notin {"ssn", "cc", "email", "phone"}


(***************************************************************************)
(* An async handler under the same three synchronous wrappers, as every    *)
(* agent declares it (requirements-refiner main.py 49-53: async def under  *)
(* validate_input, validate_output, track_invocation).  Calling an async   *)
(* def runs none of its body: it returns a coroutine object, which the     *)
(* wrappers treat as the result; the web framework awaits it afterwards.   *)
(***************************************************************************)

\* The coroutine object func(*args, **kwargs) returns.
Coroutine ==
  [shape |-> "coro", items |-> <<[pos |-> "text", tok |-> "coroutine"]>>]

\* monitoring.py 47 with an async def func: a coroutine object comes back
\* at once and nothing of the body has run.
HandlerAsync ==
  /\ cpc = "handler"
  /\ trace' = Append(trace, "handler")
  /\ result' = Coroutine
  /\ pending' = NoExc
  /\ coro' = "created"
  /\ cpc' = "tr_finally"
  /\ UNCHANGED <<policyIn, policyOut, dlp_configured, args, kwargs,
                 input_data, call0, handlerCalls, handlerGot, logs,
                 metricsSent, redactions, outcome>>
  /\ UNCHANGED final
  /\ UNCHANGED rlVars
  /\ UNCHANGED rdVars
  /\ UNCHANGED <<snVars, xtVars>>

\* The caller of the decorated function awaits what it returned: only now
\* the body of the handler runs, with the arguments the wrappers passed on,
\* and returns a value or raises.
Await ==
  /\ cpc = "done"
  /\ coro = "created"
  /\ outcome = Return(Coroutine)
  /\ coro' = "finished"
  /\ handlerCalls' = handlerCalls + 1
  /\ \/ \E r \in Results :
          /\ final' = Return(r)
          /\ handlerGot' = [args |-> args, kwargs |-> kwargs, returned |-> r]
          /\ UNCHANGED pending
     \/ \E e \in HandlerErrors :
          /\ final' = Raise(e)
          /\ pending' = e
          /\ handlerGot' = [args |-> args, kwargs |-> kwargs,
                            returned |-> None]
  /\ UNCHANGED <<policyIn, policyOut, dlp_configured, cpc, args, kwargs,
                 input_data, result, call0, trace, logs, metricsSent,
                 redactions, outcome>>
  /\ UNCHANGED rlVars
  /\ UNCHANGED rdVars
  /\ UNCHANGED <<snVars, xtVars>>

\* The call is over: rejected, or awaited to its end.
DeliverAsync ==
  /\ cpc = "done"
  /\ ~(coro = "created" /\ outcome = Return(Coroutine))
  /\ cpc' = "idle"
  /\ args' = <<>>
  /\ kwargs' = NoKw
  /\ call0' = NoArgs
  /\ input_data' = None
  /\ result' = None
  /\ pending' = NoExc
  /\ trace' = <<>>
  /\ handlerCalls' = 0
  /\ handlerGot' = NotInvoked
  /\ logs' = <<>>
  /\ metricsSent' = 0
  /\ redactions' = <<>>
  /\ outcome' = NoOutcome
  /\ coro' = "none"
  /\ final' = NoOutcome
  /\ UNCHANGED <<policyIn, policyOut, dlp_configured>>
  /\ UNCHANGED rlVars
  /\ UNCHANGED rdVars
  /\ undelivered' = {}
  /\ handlerExc' = NoExc
  /\ UNCHANGED <<sink, xtVars>>

SpecAsyncInit == ChainInit /\ LimiterIdle

SpecAsyncNext ==
  \/ \E c \in Calls : Invoke(c)
  \/ VI_Extract
  \/ VI_Length
  \/ VI_Injection
  \/ VI_Pii
  \/ TR_Enter
  \/ HandlerAsync
  \/ TR_Finally
  \/ TR_Exit
  \/ VO_Falsy
  \/ VO_Length
  \/ VO_Toxicity
  \/ VO_Pii
  \/ VO_Return
  \/ Await
  \/ DeliverAsync

SpecAsync == SpecAsyncInit /\ [][SpecAsyncNext]_vars

\* What the caller finally holds: the awaited value of an async handler,
\* else what the decorated call gave.
Obtained == IF coro = "finished" THEN final ELSE outcome

\* C13: with check_toxicity set, when the value the handler produced is
\* classified toxic the caller never obtains it: the call ends in a
\* rejection (the toxicity rejection unless the length check rejected
\* first) and the PII-out stage does not run.
C13_ToxicWithheld ==
  ( /\ cpc = "done"
    /\ coro # "created"
    /\ handlerCalls = 1
    /\ pending = NoExc
    /\ policyOut.check_toxicity
    /\ IsToxic(PyStr(handlerGot.returned)) )
  => /\ Obtained.kind = "raise"
     /\ ~TooLong(policyOut.max_length, handlerGot.returned) =>
          Obtained = Raise(ToxicOutput)
     /\ \A k \in DOMAIN trace : trace[k] # "pii-out"


(***************************************************************************)
(* The default policy.                                                     *)
(***************************************************************************)

\* validate_input's parameter defaults, guardrails.py 29-34.
DefaultPolicyIn ==
  [check_prompt_injection |-> TRUE, check_pii |-> TRUE,
   redact_pii |-> FALSE, max_length |-> NoLimit]

\* validate_output's parameter defaults, guardrails.py 95-100.
DefaultPolicyOut ==
  [check_toxicity |-> TRUE, check_pii |-> TRUE,
   redact_pii |-> TRUE, max_length |-> NoLimit]

\* C14: validate_input() and validate_output() without arguments check
\* injection, PII-in (rejecting), toxicity and PII-out (redacting), with no
\* length limits; under them a call whose input holds PII is rejected, and
\* a result that holds PII is returned redacted instead of a rejection.
C14_DefaultPolicy ==
  /\ DefaultPolicyIn.check_prompt_injection
  /\ DefaultPolicyIn.check_pii
  /\ ~DefaultPolicyIn.redact_pii
  /\ ~DefaultPolicyIn.max_length.set
  /\ DefaultPolicyOut.check_toxicity
  /\ DefaultPolicyOut.check_pii
  /\ DefaultPolicyOut.redact_pii
  /\ ~DefaultPolicyOut.max_length.set
  /\ ( /\ cpc = "done"
       /\ policyIn = DefaultPolicyIn
       /\ policyOut = DefaultPolicyOut
       /\ Cardinality(CarriedPayloads(call0)) = 1 )
     => /\ \A v \in CarriedPayloads(call0) :
             (DetectPii(PyStr(v)) # <<>> /\ ~HasPromptInjection(PyStr(v)))
               => /\ handlerCalls = 0
                  /\ outcome.kind = "raise"
                  /\ outcome.exc.msg = "PII detected in input"
        /\ ( /\ handlerCalls = 1
             /\ pending = NoExc
             /\ DetectPii(PyStr(handlerGot.returned)) # <<>>
             /\ ~IsToxic(PyStr(handlerGot.returned)) )
           => /\ outcome.kind = "return"
              /\ outcome.value # handlerGot.returned
              /\ DetectPii(PyStr(outcome.value)) = <<>>


(***************************************************************************)
(* The redactors applied on their own: _redact_pii_regex and               *)
(* _redact_pii_gcp of the SDK (guardrails.py 210-317) and _redact_pii of   *)
(* the platform package (validators.py 81-89).                             *)
(***************************************************************************)

PiiTokens == {"ssn", "cc", "email", "phone"}

\* Sequences over S of at most MaxItems elements.
ItemsOf(S) == UNION {[1..n -> S] : n \in 0..MaxItems}

\* The fragments of a text.
TextItems == {[pos |-> "text", tok |-> t] : t \in PiiTokens \cup {"plain"}}

\* What a document holds: string values, numeric values (a ten-digit or a
\* sixteen-digit number, or 42), keys whose own text matches a pattern, and
\* a string value with an email right after an escape ("\nbob@x.co").
DictItems ==
  {SVal(t) : t \in PiiTokens \cup {"plain"}}
  \cup {NVal("phone"), NVal("cc"), NVal("plain")}
  \cup {[pos |-> "key", tok |-> t] : t \in {"email", "ssn"}}
  \cup {[pos |-> "esc", tok |-> "email"]}

\* Arguments of redact: texts, documents, and lists of strings.
RedactInputs ==
  {[shape |-> "str", items |-> its] : its \in ItemsOf(TextItems)}
  \cup {[shape |-> "dict", items |-> its] : its \in ItemsOf(DictItems)}
  \cup {[shape |-> "list", items |-> its] :
          its \in ItemsOf({SVal(t) : t \in {"plain", "email"}}) \ {<<>>}}

\* The redactors: the regex tier, the two-tier redactor with the service
\* unconfigured ("") or answering in one of the ways of DlpOutcomes, and
\* the platform package's, whose client is built or fails to build.
Tiers ==
  {[name |-> "regex", answer |-> ""]}
  \cup {[name |-> "gcp", answer |-> a] : a \in DlpOutcomes \cup {""}}
  \cup {[name |-> "platform", answer |-> a] : a \in {"ok", "client_error"}}

\* validators.py 82-89: _redact_pii imports dlp_v2, builds a client (either
\* may raise) and returns data as it came.
PlatformRedactPii(x, answer) ==
  IF answer = "ok"
    THEN [Ok(x) EXCEPT !.tier = "platform"]
    ELSE Failed(Exc("DlpError", answer))

\* validators.py 70-79: _contains_pii looks for an SSN or a card number.
PlatformContainsPii(text) == Has(text, "ssn") \/ Has(text, "cc")

\* redact(x) by one of the redactors.
Apply(tr, x) ==
  CASE tr.name = "regex" -> [RedactPiiRegex(x) EXCEPT !.tier = "regex"]
    [] tr.name = "gcp" -> RedactPiiGcp(x, tr.answer # "", tr.answer)
    [] tr.name = "platform" -> PlatformRedactPii(x, tr.answer)

\* The detector that goes with a redactor, run over str(v).
Rescan(tr, v) ==
  IF tr.name = "platform"
    THEN IF PlatformContainsPii(PyStr(v)) THEN <<"PII">> ELSE <<>>
    ELSE DetectPii(PyStr(v))

\* y = redact(x)
Redact(x, tr) ==
  /\ rpc = "idle"
  /\ rpc' = "once"
  /\ rdata' = x
  /\ rtier' = tr
  /\ rout' = Apply(tr, x)
  /\ UNCHANGED rout2
  /\ UNCHANGED <<rlVars, chVars, awVars>>
  /\ UNCHANGED <<snVars, xtVars>>

\* z = redact(y), the service answering as it likes the second time.
RedactAgain ==
  /\ rpc = "once"
  /\ rout.ok
  /\ rpc' = "twice"
  /\ \E a \in (IF rtier.name = "gcp" /\ rtier.answer # ""
                 THEN DlpOutcomes ELSE {rtier.answer}) :
       rout2' = Apply([rtier EXCEPT !.answer = a], rout.value)
  /\ UNCHANGED <<rtier, rdata, rout>>
  /\ UNCHANGED <<rlVars, chVars, awVars>>
  /\ UNCHANGED <<snVars, xtVars>>

RedactDone ==
  /\ rpc \in {"once", "twice"}
  /\ rpc' = "idle"
  /\ rtier' = NoTier
  /\ rdata' = None
  /\ rout' = NotRedacted
  /\ rout2' = NotRedacted
  /\ UNCHANGED <<rlVars, chVars, awVars>>
  /\ UNCHANGED <<snVars, xtVars>>

SpecRedactInit == LimiterIdle /\ ChainIdle

SpecRedactNext ==
  \/ \E x \in RedactInputs, tr \in Tiers : Redact(x, tr)
  \/ RedactAgain
  \/ RedactDone

SpecRedact == SpecRedactInit /\ [][SpecRedactNext]_vars

\* C15: a payload that has passed through redaction yields no finding when
\* the detector of that redactor scans it again.
C15_RescanFindsNothing ==
  (rpc # "idle" /\ rout.ok) => Rescan(rtier, rout.value) = <<>>

\* Lines 299-312: what the substitutions write.
Placeholders ==
  {"[SSN_REDACTED]", "[CREDIT_CARD_REDACTED]", "[EMAIL_REDACTED]",
   "[PHONE_REDACTED]"}

\* C16: the regex redactor is idempotent, redact(redact(x)) = redact(x):
\* the second run returns and returns its argument, and every placeholder
\* the first run wrote is still in place after the second.
C16_RedactIdempotent ==
  (rpc = "twice" /\ rtier.name = "regex") =>
    /\ rout2.ok
    /\ rout2.value = rout.value
    /\ \A k \in DOMAIN rout.value.items :
         rout.value.items[k].tok \in Placeholders =>
           rout2.value.items[k] = rout.value.items[k]

\* A text with an SSN and an email went through the regex redactor twice.
C16_Witness ==
  /\ rpc = "twice"
  /\ rtier.name = "regex"
  /\ rdata = Str(<<"ssn", "email">>)
  /\ rout.value = Str(<<"[SSN_REDACTED]", "[EMAIL_REDACTED]">>)
  /\ rout2.ok

\* C17: the SDK's redactors return a document rebuilt with the shape it
\* had: the call returns, the result is a document with the same fields,
\* keys are as they were, and a value differs only where it matched a
\* pattern.
C17_StructurePreserved ==
  (rpc # "idle" /\ rtier.name \in {"regex", "gcp"} /\ rdata.shape = "dict") =>
    /\ rout.ok
    /\ rout.value.shape = rdata.shape
    /\ Len(rout.value.items) = Len(rdata.items)
    /\ \A k \in DOMAIN rdata.items :
         /\ rout.value.items[k].pos = rdata.items[k].pos
         /\ rdata.items[k].pos = "key" =>
              rout.value.items[k] = rdata.items[k]
         /\ rout.value.items[k] # rdata.items[k] =>
              rdata.items[k].tok \in PiiTokens

\* C18: an answer of the service that cannot be used (an error, a
\* malformed or an empty response) is treated as the service being
\* unavailable: for a text and for a document alike, redact returns what
\* the regex tier returns for the payload.
C18_UnusableAnswerFallsBack ==
  (rpc # "idle" /\ rtier.name = "gcp" /\ rdata.shape \in {"str", "dict"}
     /\ rtier.answer \in {"request_error", "read_error", "malformed", "empty"}) =>
    rout = [RedactPiiRegex(rdata) EXCEPT !.tier = "regex"]

\* C19: a sequential check_limit call removes exactly the timestamps
\* strictly older than now - time_window; a timestamp exactly time_window
\* old stays in the list and counts against max_requests.
C19_PruneBoundary ==
  last.done =>
    LET kept == SelectSeq(last.pre,
                          LAMBDA ts : ts >= last.now - time_window)
    IN  /\ requests[last.id] =
             IF last.result THEN Append(kept, last.now) ELSE kept
        /\ Len(kept) >= max_requests => ~last.result


(***************************************************************************)
(* Concurrent check_limit calls on different identifiers: at any time at   *)
(* most one call per identifier is inside the method.                      *)
(***************************************************************************)

\* check_limit(i) entered while no other thread is inside check_limit(i).
\* Threads are interchangeable, so the call is given to the first thread
\* that is free.
EnterDistinct(t, i) ==
  /\ \A u \in Threads \ {t} : pc[u] = "idle" \/ ident[u] # i
  /\ \A u \in Threads : u < t => pc[u] # "idle"
  /\ Enter(t, i)

\* RateLimiter(max_requests, time_window) with one or two of each.
SpecShardInit ==
  /\ RLInit
  /\ max_requests \in {1, 2}
  /\ time_window \in {1, 2}
  /\ ChainIdle

SpecShardNext ==
  \/ Tick
  \/ \E t \in Threads, i \in Identifiers : EnterDistinct(t, i)
  \/ \E t \in Threads : TestPresent(t)
  \/ \E t \in Threads : Comprehend(t)
  \/ \E t \in Threads : StorePruned(t)
  \/ \E t \in Threads : StoreEmpty(t)
  \/ \E t \in Threads : ReturnFalse(t)
  \/ \E t \in Threads : PassLimit(t)
  \/ \E t \in Threads : AppendReturnTrue(t)

SpecShard == SpecShardInit /\ [][SpecShardNext]_vars

\* Some thread inside check_limit(i) has got past line 393.
Inside(i) == \E t \in Threads : pc[t] # "idle" /\ ident[t] = i

\* C20: with calls on different identifiers interleaved, a step never
\* removes an identifier's entry and changes the stored sequence of an
\* identifier only on behalf of a call on that identifier; and each verdict
\* is the one the identifier's own history gives: True exactly when fewer
\* than max_requests admitted calls of that identifier lie inside the
\* window, leaving behind the identifier's own pruned list.
C20_OwnWindowOnly ==
  /\ [][ /\ DOMAIN requests \subseteq DOMAIN requests'
         /\ \A j \in DOMAIN requests :
              requests'[j] # requests[j] => Inside(j) ]_vars
  /\ [](last.done =>
         /\ last.result <=> (last.inWindow < max_requests)
         /\ ~Inside(last.id) =>
              requests[last.id] =
                Prune(admitted[last.id], last.now, time_window))

\* A call on user-1 was turned away while a call on user-2, which has a
\* history of its own, was inside check_limit.
C20_Witness ==
  /\ last.done
  /\ last.id = "user-1"
  /\ ~last.result
  /\ Inside("user-2")
  /\ "user-2" \in DOMAIN requests
  /\ requests["user-2"] # <<>>


(***************************************************************************)
(* The length checks of validate_input (guardrails.py 53-62) and           *)
(* validate_output (115-125) under max_length of None, 0 and 24.           *)
(***************************************************************************)

\* max_length arguments of the two decorators.
LengthArgs == {NoLimit, Limit(0), Limit(24)}

\* Calls with payloads of 5, 15, 29 and 30 characters.
LengthCalls ==
  LET ps == { Str(<<"plain">>), Dict(<<SVal("plain")>>),
              Str(<<"plain", "plain", "plain", "plain", "plain">>),
              Dict(<<SVal("plain"), SVal("plain")>>) }
  IN  {[args |-> <<SelfObj, p>>, kwargs |-> NoKw] : p \in ps}
      \cup {[args |-> <<>>, kwargs |-> Kw1("input_data", p)] : p \in ps}

SpecLengthInit ==
  /\ CallIdle
  /\ LimiterIdle
  /\ policyIn \in {[check_prompt_injection |-> TRUE, check_pii |-> c,
                    redact_pii |-> FALSE, max_length |-> m] :
                     c \in BOOLEAN, m \in LengthArgs}
  /\ policyOut \in {[check_toxicity |-> TRUE, check_pii |-> FALSE,
                     redact_pii |-> TRUE, max_length |-> m] :
                      m \in LengthArgs}
  /\ dlp_configured = FALSE

SpecLengthNext ==
  \/ \E c \in LengthCalls : Invoke(c)
  \/ VI_Extract
  \/ VI_Length
  \/ VI_Injection
  \/ VI_Pii
  \/ TR_Enter
  \/ Handler
  \/ TR_Finally
  \/ TR_Exit
  \/ VO_Falsy
  \/ VO_Length
  \/ VO_Toxicity
  \/ VO_Pii
  \/ VO_Return
  \/ Deliver

SpecLength == SpecLengthInit /\ [][SpecLengthNext]_vars

\* C21: with max_length given, 0 included, a call is rejected for its
\* length, the handler not having run, exactly when len(str(payload))
\* exceeds it, and a result is rejected for its length exactly when
\* len(str(result)) exceeds it; with max_length None neither happens.
C21_LengthBudget ==
  LET payload == Extract(call0.args, call0.kwargs)
      inLimit == policyIn.max_length
      outLimit == policyOut.max_length
  IN  /\ (cpc # "idle" /\ inLimit.set /\ PyLen(payload) > inLimit.val) =>
           /\ handlerCalls = 0
           /\ cpc = "done" => outcome = Raise(InputTooLong)
      /\ outcome = Raise(InputTooLong) =>
           /\ inLimit.set
           /\ PyLen(payload) > inLimit.val
           /\ handlerCalls = 0
      /\ (cpc = "done" /\ handlerCalls = 1 /\ pending = NoExc
            /\ outLimit.set /\ PyLen(handlerGot.returned) > outLimit.val) =>
           outcome = Raise(OutputTooLong)
      /\ outcome = Raise(OutputTooLong) =>
           /\ outLimit.set
           /\ PyLen(handlerGot.returned) > outLimit.val


(***************************************************************************)
(* The protected handler while Cloud Monitoring comes and goes.            *)
(***************************************************************************)

\* The backend becomes unreachable, or reachable again.
SinkFlip ==
  /\ sink' = IF sink = "up" THEN "down" ELSE "up"
  /\ UNCHANGED <<undelivered, handlerExc>>
  /\ UNCHANGED <<rlVars, chVars, awVars, rdVars, xtVars>>

\* The decorators with the agents' arguments (the defaults).
SpecSinkInit ==
  /\ CallIdle
  /\ LimiterIdle
  /\ policyIn = [check_prompt_injection |-> TRUE, check_pii |-> TRUE,
                 redact_pii |-> FALSE, max_length |-> NoLimit]
  /\ policyOut = [check_toxicity |-> TRUE, check_pii |-> TRUE,
                  redact_pii |-> TRUE, max_length |-> NoLimit]
  /\ dlp_configured = FALSE

SpecSinkNext ==
  \/ SinkFlip
  \/ \E c \in Calls : Invoke(c)
  \/ VI_Extract
  \/ VI_Length
  \/ VI_Injection
  \/ VI_Pii
  \/ TR_Enter
  \/ Handler
  \/ TR_Finally
  \/ TR_Exit
  \/ VO_Falsy
  \/ VO_Length
  \/ VO_Toxicity
  \/ VO_Pii
  \/ VO_Return
  \/ Deliver

SpecSink == SpecSinkInit /\ [][SpecSinkNext]_vars

\* C22: whatever the monitoring sink failed to take, the caller gets what
\* the handler produced: the error the handler raised, or the result it
\* returned (where the output stages have nothing to reject or redact).
C22_SinkFailureHarmless ==
  (cpc = "done" /\ handlerCalls = 1) =>
    /\ handlerExc # NoExc => outcome = Raise(handlerExc)
    /\ ( /\ handlerExc = NoExc
         /\ ~IsToxic(PyStr(handlerGot.returned))
         /\ DetectPii(PyStr(handlerGot.returned)) = <<>> )
       => outcome = Return(handlerGot.returned)

\* The backend was down for the custom metric, the log entry and the
\* invocation metrics of a call whose handler returned a result.
C22_Witness ==
  /\ cpc = "done"
  /\ undelivered = {"custom-metric", "log", "metric"}
  /\ sink = "down"
  /\ outcome = Return(Dict(<<SVal("plain")>>))


(***************************************************************************)
(* Guardrails._detect_pii (guardrails.py 180-208) on texts of its own.     *)
(***************************************************************************)

MaxScan == 4

\* Texts of up to MaxScan fragments, each plain or a match of one pattern.
ScanTexts ==
  UNION {[1..n -> {"plain", "ssn", "cc", "email", "phone"}] : n \in 1..MaxScan}

\* findings = Guardrails._detect_pii(text)
Scan(text) ==
  /\ scanText = <<>>
  /\ scanText' = text
  /\ scanOut' = DetectPii(text)
  /\ UNCHANGED <<rlVars, chVars, awVars, rdVars, snVars, qtVars, rgVars,
                 tkVars>>

\* The findings have been used.
ScanDone ==
  /\ scanText # <<>>
  /\ scanText' = <<>>
  /\ scanOut' = <<>>
  /\ UNCHANGED <<rlVars, chVars, awVars, rdVars, snVars, qtVars, rgVars,
                 tkVars>>

SpecScanInit == LimiterIdle /\ ChainIdle

SpecScanNext ==
  \/ \E text \in ScanTexts : Scan(text)
  \/ ScanDone

SpecScan == SpecScanInit /\ [][SpecScanNext]_vars

\* The detector a finding comes from: 1 SSN, 2 credit card, 3 email,
\* 4 phone, in the order of lines 193, 197, 201 and 205.
DetectorOf(label) ==
  CASE label = "SSN" -> 1
    [] label = "CREDIT_CARD" -> 2
    [] label = "EMAIL_ADDRESS" -> 3
    [] label = "PHONE_NUMBER" -> 4

PatternOf(n) ==
  CASE n = 1 -> "ssn" [] n = 2 -> "cc" [] n = 3 -> "email" [] n = 4 -> "phone"

\* C23: a scan reports a kind exactly when the text has a match of its
\* pattern, whatever else matched; it reports each kind once however many
\* matches there are; and the findings come in the order of the detectors
\* (SSN, credit card, email, phone), wherever the matches stand in the text.
C23_OneFindingPerKindInOrder ==
  /\ \A n \in 1..4 :
       Has(scanText, PatternOf(n)) <=>
         \E k \in DOMAIN scanOut : DetectorOf(scanOut[k]) = n
  /\ \A j, k \in DOMAIN scanOut :
       j < k => DetectorOf(scanOut[j]) < DetectorOf(scanOut[k])

\* A phone number before two emails and an SSN: three findings, in the
\* detectors' order.
C23_Witness ==
  /\ scanText = <<"phone", "email", "email", "ssn">>
  /\ scanOut = <<"SSN", "EMAIL_ADDRESS", "PHONE_NUMBER">>


(***************************************************************************)
(* Handlers that do not run to their end: a synchronous handler cancelled  *)
(* while it runs, and the coroutine of an async handler cancelled, or      *)
(* dropped without being awaited, after the decorated call returned it.    *)
(***************************************************************************)

\* monitoring.py 47: func(*args, **kwargs) is interrupted by a cancellation.
HandlerCancelled ==
  /\ cpc = "handler"
  /\ handlerCalls' = handlerCalls + 1
  /\ trace' = Append(trace, "handler")
  /\ pending' = CancelledError
  /\ handlerExc' = CancelledError
  /\ handlerGot' = [args |-> args, kwargs |-> kwargs, returned |-> None]
  /\ cpc' = "tr_finally"
  /\ UNCHANGED <<policyIn, policyOut, dlp_configured, args, kwargs,
                 input_data, result, call0, logs, metricsSent, redactions,
                 outcome>>
  /\ UNCHANGED rlVars
  /\ UNCHANGED <<awVars, rdVars>>
  /\ UNCHANGED <<sink, undelivered, xtVars>>

\* The task awaiting the coroutine is cancelled ("cancelled"), or the
\* coroutine object is dropped without ever being awaited ("abandoned").
Cancel ==
  /\ cpc = "done"
  /\ coro = "created"
  /\ outcome = Return(Coroutine)
  /\ \/ coro' = "cancelled" /\ final' = Raise(CancelledError)
     \/ coro' = "abandoned" /\ UNCHANGED final
  /\ UNCHANGED <<rlVars, chVars, rdVars, snVars, xtVars>>

\* The agents' default decorators around a handler of either kind.
SpecCancelInit ==
  /\ CallIdle
  /\ LimiterIdle
  /\ policyIn = [check_prompt_injection |-> TRUE, check_pii |-> TRUE,
                 redact_pii |-> FALSE, max_length |-> NoLimit]
  /\ policyOut = [check_toxicity |-> TRUE, check_pii |-> TRUE,
                  redact_pii |-> TRUE, max_length |-> NoLimit]
  /\ dlp_configured = FALSE

SpecCancelNext ==
  \/ \E c \in Calls : Invoke(c)
  \/ VI_Extract
  \/ VI_Length
  \/ VI_Injection
  \/ VI_Pii
  \/ TR_Enter
  \/ Handler
  \/ HandlerCancelled
  \/ HandlerAsync
  \/ TR_Finally
  \/ TR_Exit
  \/ VO_Falsy
  \/ VO_Length
  \/ VO_Toxicity
  \/ VO_Pii
  \/ VO_Return
  \/ Await
  \/ Cancel
  \/ DeliverAsync

SpecCancel == SpecCancelInit /\ [][SpecCancelNext]_vars

\* The invocation was cancelled or abandoned.
Abandoned ==
  \/ coro \in {"cancelled", "abandoned"}
  \/ cpc = "done" /\ handlerExc = CancelledError

\* C24: a call whose handler was cancelled or abandoned has exactly one
\* invocation record; the record says success = false and carries an error
\* that names the cancellation and is not the error of a handler failure.
C24_CancellationRecorded ==
  Abandoned =>
    /\ Len(logs) = 1
    /\ ~logs[1].success
    /\ logs[1].hasError
    /\ logs[1].error # ""
    /\ \A e \in HandlerErrors : logs[1].error # ErrStr(e)

\* C25: an invocation record exists only once the handler's body has
\* finished, and it says success only if the body finished without
\* raising, for the async handlers the agents decorate.
C25_RecordAfterExecution ==
  logs # <<>> =>
    /\ handlerCalls >= 1
    /\ logs[1].success => (pending = NoExc /\ final.kind # "raise")

\* C26: with sequential calls, every stored sequence holds only timestamps
\* of admitted calls of its identifier, is in non-decreasing order and is
\* never longer than max_requests; and when check_limit(i) has just
\* returned, every timestamp stored for i is less than time_window old.
C26_WindowInvariant ==
  /\ \A i \in DOMAIN requests :
       /\ \A k \in DOMAIN requests[i] :
            \E a \in DOMAIN admitted[i] : admitted[i][a] = requests[i][k]
       /\ \A j, k \in DOMAIN requests[i] :
            j < k => requests[i][j] <= requests[i][k]
       /\ Len(requests[i]) <= max_requests
  /\ last.done =>
       \A k \in DOMAIN requests[last.id] :
         last.now - requests[last.id][k] < time_window

\* A rejected call at a later clock reading left a full window behind, all
\* of whose timestamps are inside the window.
C26_Witness ==
  /\ last.done
  /\ ~last.result
  /\ last.now > 0
  /\ Len(requests[last.id]) = max_requests
  /\ max_requests = 2
  /\ requests[last.id][1] < requests[last.id][2]


(***************************************************************************)
(* RateLimiter.__call__ (guardrails.py 412-426) around a function that may *)
(* raise: what becomes of the quota a failed call has used.                *)
(***************************************************************************)

\* Line 423 returns what func returned or lets its exception pass; the
\* caller has the outcome and the wrapper's frame is gone.
LimitedReturn ==
  LET raised == last.result /\ outcome.kind = "raise"
  IN  /\ cpc = "done"
      /\ last.done
      /\ cpc' = "idle"
      /\ requests' = IF raised
                       THEN Store(requests, last.id,
                                  AfterRaise(requests[last.id], last.now))
                       ELSE requests
      /\ raisedAt' = IF raised
                       THEN [raisedAt EXCEPT ![last.id] = Append(@, last.now)]
                       ELSE raisedAt
      /\ args' = <<>>
      /\ kwargs' = NoKw
      /\ call0' = NoArgs
      /\ input_data' = None
      /\ result' = None
      /\ pending' = NoExc
      /\ trace' = <<>>
      /\ handlerCalls' = 0
      /\ handlerGot' = NotInvoked
      /\ logs' = <<>>
      /\ metricsSent' = 0
      /\ redactions' = <<>>
      /\ outcome' = NoOutcome
      /\ undelivered' = {}
      /\ handlerExc' = NoExc
      /\ UNCHANGED <<max_requests, time_window, clock, pc, ident, now,
                     filtered, admitted, calls, last>>
      /\ UNCHANGED <<policyIn, policyOut, dlp_configured>>
      /\ UNCHANGED <<awVars, rdVars, sink, scVars, rgVars, tkVars>>

\* A request the handler works on (and may fail on), and one the input
\* stage refuses.
QuotaCalls ==
  { [args |-> <<>>, kwargs |-> Kw1("input_data", Str(<<"plain">>))],
    [args |-> <<>>, kwargs |-> Kw1("input_data", Str(<<"inj">>))] }

SpecQuotaInit ==
  /\ RLInit
  /\ max_requests \in {1, 2}
  /\ time_window = 1
  /\ CallIdle
  /\ policyIn = [check_prompt_injection |-> TRUE, check_pii |-> TRUE,
                 redact_pii |-> FALSE, max_length |-> NoLimit]
  /\ policyOut = [check_toxicity |-> TRUE, check_pii |-> TRUE,
                  redact_pii |-> TRUE, max_length |-> NoLimit]
  /\ dlp_configured = FALSE

SpecQuotaNext ==
  \/ Tick
  \/ \E i \in Identifiers, c \in QuotaCalls : LimitedInvoke(i, c)
  \/ VI_Extract
  \/ VI_Length
  \/ VI_Injection
  \/ VI_Pii
  \/ TR_Enter
  \/ Handler
  \/ TR_Finally
  \/ TR_Exit
  \/ VO_Falsy
  \/ VO_Length
  \/ VO_Toxicity
  \/ VO_Pii
  \/ VO_Return
  \/ LimitedReturn

SpecQuota == SpecQuotaInit /\ [][SpecQuotaNext]_vars

\* The earlier admitted calls of identifier i that raised and whose
\* timestamps lie inside the window at time t.
FailedInWindow(i, t) ==
  Cardinality({k \in DOMAIN raisedAt[i] : t - raisedAt[i][k] < time_window})

\* C27: an admitted call whose wrapped function raised has its timestamp in
\* the identifier's list when the exception reaches the caller; and a call
\* made while max_requests earlier calls that raised lie inside the window
\* is turned away.
C27_FailedCallsKeepQuota ==
  /\ (cpc = "done" /\ last.done /\ last.result /\ outcome.kind = "raise") =>
       \E k \in DOMAIN requests[last.id] : requests[last.id][k] = last.now
  /\ (cpc # "idle" /\ last.done
        /\ FailedInWindow(last.id, last.now) >= max_requests) =>
       /\ ~last.result
       /\ cpc = "done"
       /\ RateLimited

\* Two calls of user-1 were admitted and raised; the third is turned away.
C27_Witness ==
  /\ max_requests = 2
  /\ cpc = "done"
  /\ last.id = "user-1"
  /\ ~last.result
  /\ RateLimited
  /\ FailedInWindow("user-1", last.now) = 2


(***************************************************************************)
(* The registry service's POST /agents (agent-registry main.py 57-89) and  *)
(* the SDK's AgentRegistry.register_agent (registry.py 173-211), both      *)
(* working on the Firestore collection 'agents'.  A client is a request    *)
(* handled by its own service process or an SDK user's process; the steps  *)
(* of different clients interleave at the Firestore calls.                 *)
(***************************************************************************)

StorageError == Exc("ServiceUnavailable", "503 firestore unavailable")

\* Lines 66-69: HTTPException(status_code=409, detail=...).
Conflict == Exc("HTTPException", "409 already exists")

RegUnchanged ==
  /\ UNCHANGED <<rlVars, chVars, awVars, rdVars, snVars, scVars, qtVars,
                 tkVars>>

\* Lines 57-62: the request arrives; agent_name = agent.metadata.name.
RG_Post(c, n) ==
  /\ reg[c].pc = "idle"
  /\ reg' = [reg EXCEPT ![c] =
               [NoRequest EXCEPT !.pc = "get", !.path = "service",
                                 !.name = n,
                                 !.fresh = (agents[n] = NoDoc)]]
  /\ UNCHANGED agents
  /\ RegUnchanged

\* Lines 64-69: existing = ...document(agent_name).get(); the 409 is raised
\* inside the try block of line 60.
RG_Get(c, fail) ==
  /\ reg[c].pc = "get"
  /\ reg' = [reg EXCEPT ![c] =
               IF fail
                 THEN [@ EXCEPT !.pc = "except", !.exc = StorageError]
                 ELSE IF agents[@.name] # NoDoc
                        THEN [@ EXCEPT !.pc = "except", !.existed = TRUE,
                                       !.exc = Conflict]
                        ELSE [@ EXCEPT !.pc = "set"]]
  /\ UNCHANGED agents
  /\ RegUnchanged

\* Lines 72-77: timestamps, then ...document(agent_name).set(agent_dict).
RG_Set(c, fail) ==
  /\ reg[c].pc = "set"
  /\ IF fail
       THEN /\ reg' = [reg EXCEPT ![c] =
                         [@ EXCEPT !.pc = "except", !.exc = StorageError]]
            /\ UNCHANGED agents
       ELSE /\ agents' = [agents EXCEPT ![reg[c].name] =
                            [owner |-> c, registered_at |-> clock]]
            /\ reg' = [reg EXCEPT ![c] = [@ EXCEPT !.pc = "return"]]
  /\ RegUnchanged

\* Lines 79-85: return {"status": "registered", ...}.
RG_Return(c) ==
  /\ reg[c].pc = "return"
  /\ reg' = [reg EXCEPT ![c] =
               [@ EXCEPT !.pc = "done", !.status = 200,
                         !.body = "registered"]]
  /\ UNCHANGED agents
  /\ RegUnchanged

\* Lines 87-89: except Exception as e: raise HTTPException(status_code=500,
\* detail=str(e)).  HTTPException is an Exception.
RG_Except(c) ==
  /\ reg[c].pc = "except"
  /\ reg' = [reg EXCEPT ![c] =
               [@ EXCEPT !.pc = "done", !.status = 500, !.body = "error"]]
  /\ UNCHANGED agents
  /\ RegUnchanged

\* registry.py 182-196: the SDK's register_agent checks the required fields
\* and sets the timestamps; it does not look the name up.
SDK_Register(c, n) ==
  /\ reg[c].pc = "idle"
  /\ reg' = [reg EXCEPT ![c] =
               [NoRequest EXCEPT !.pc = "sdk_set", !.path = "sdk",
                                 !.name = n,
                                 !.fresh = (agents[n] = NoDoc)]]
  /\ UNCHANGED agents
  /\ RegUnchanged

\* registry.py 203-211: ...document(agent_name).set(agent_config), then the
\* confirmation; a failure of set reaches the caller as it is.
SDK_Set(c, fail) ==
  /\ reg[c].pc = "sdk_set"
  /\ IF fail
       THEN /\ reg' = [reg EXCEPT ![c] =
                         [@ EXCEPT !.pc = "done", !.exc = StorageError,
                                   !.body = "raised"]]
            /\ UNCHANGED agents
       ELSE /\ agents' = [agents EXCEPT ![reg[c].name] =
                            [owner |-> c, registered_at |-> clock]]
            /\ reg' = [reg EXCEPT ![c] =
                         [@ EXCEPT !.pc = "done", !.body = "registered"]]
  /\ RegUnchanged

\* The client has its answer and may send another request.
RG_Close(c) ==
  /\ reg[c].pc = "done"
  /\ reg' = [reg EXCEPT ![c] = NoRequest]
  /\ UNCHANGED agents
  /\ RegUnchanged

SpecRegistryInit ==
  /\ RLInit
  /\ max_requests = 1
  /\ time_window = 1
  /\ CallIdle
  /\ policyIn = [check_prompt_injection |-> TRUE, check_pii |-> TRUE,
                 redact_pii |-> FALSE, max_length |-> NoLimit]
  /\ policyOut = [check_toxicity |-> TRUE, check_pii |-> TRUE,
                  redact_pii |-> TRUE, max_length |-> NoLimit]
  /\ dlp_configured = FALSE

SpecRegistryNext ==
  \/ Tick
  \/ \E c \in Clients, n \in AgentNames : RG_Post(c, n)
  \/ \E c \in Clients, fail \in BOOLEAN : RG_Get(c, fail)
  \/ \E c \in Clients, fail \in BOOLEAN : RG_Set(c, fail)
  \/ \E c \in Clients : RG_Return(c)
  \/ \E c \in Clients : RG_Except(c)
  \/ \E c \in Clients, n \in AgentNames : SDK_Register(c, n)
  \/ \E c \in Clients, fail \in BOOLEAN : SDK_Set(c, fail)
  \/ \E c \in Clients : RG_Close(c)

SpecRegistry == SpecRegistryInit /\ [][SpecRegistryNext]_vars

\* C28: a request to the service that found a document under its name is
\* answered 409, and an answer of 500 means that Firestore failed.
C28_ConflictIs409 ==
  \A c \in Clients :
    (reg[c].pc = "done" /\ reg[c].path = "service") =>
      /\ reg[c].existed => reg[c].status = 409
      /\ reg[c].status = 500 => reg[c].exc = StorageError

\* C29: of two requests for the same name that both began while the name
\* had no document, at most one is answered "registered", and the stored
\* document is that request's.
C29_OneRegistrationWins ==
  \A c, d \in Clients :
    (c # d /\ reg[c].pc = "done" /\ reg[d].pc = "done"
       /\ reg[c].name = reg[d].name /\ reg[c].fresh /\ reg[d].fresh
       /\ reg[c].body = "registered") =>
      /\ reg[d].body # "registered"
      /\ agents[reg[c].name].owner = c


(***************************************************************************)
(* PerformanceTracker.measure_execution_time (monitoring.py 286-302) with  *)
(* start_span and end_span (262-284).  A caller is a thread, or a frame of *)
(* a recursion, inside the wrapper of a measured function; the callers     *)
(* share the tracker's _start_times.                                       *)
(***************************************************************************)

TrkUnchanged ==
  /\ UNCHANGED <<rlVars, chVars, awVars, rdVars, snVars, scVars, qtVars,
                 rgVars>>

\* Line 264: self._start_times[span_name] = time.time()
StartSpan(d, name, t) ==
  [n \in DOMAIN d \cup {name} |-> IF n = name THEN t ELSE d[n]]

\* Line 281: del self._start_times[span_name]
DelSpan(d, name) == [n \in DOMAIN d \ {name} |-> d[n]]

\* Lines 290-292: span_name = func.__name__; self.start_span(span_name).
MT_Start(k, f) ==
  /\ span[k].pc = "idle"
  /\ start_times' = StartSpan(start_times, f, clock)
  /\ span' = [span EXCEPT ![k] =
                [NoSpan EXCEPT !.pc = "body", !.name = f, !.began = clock]]
  /\ UNCHANGED clock
  /\ TrkUnchanged

\* Lines 294-297: func runs and returns or raises; the finally block is
\* entered either way.
MT_Body(k) ==
  /\ span[k].pc = "body"
  /\ span' = [span EXCEPT ![k] = [@ EXCEPT !.pc = "end"]]
  /\ UNCHANGED <<start_times, clock>>
  /\ TrkUnchanged

\* Lines 276-278: a span name that is not in _start_times gives 0.0.
MT_EndCheck(k) ==
  /\ span[k].pc = "end"
  /\ span' = [span EXCEPT ![k] =
                IF span[k].name \in DOMAIN start_times
                  THEN [@ EXCEPT !.pc = "read"]
                  ELSE [@ EXCEPT !.pc = "done", !.kind = "zero",
                                 !.duration = 0, !.ended = clock]]
  /\ UNCHANGED <<start_times, clock>>
  /\ TrkUnchanged

\* Line 280: duration = time.time() - self._start_times[span_name]; a
\* KeyError if the entry has gone since line 276.
MT_EndRead(k) ==
  /\ span[k].pc = "read"
  /\ span' = [span EXCEPT ![k] =
                IF span[k].name \in DOMAIN start_times
                  THEN [@ EXCEPT !.pc = "del", !.found = TRUE,
                                 !.start = start_times[span[k].name],
                                 !.duration =
                                   clock - start_times[span[k].name],
                                 !.ended = clock]
                  ELSE [@ EXCEPT !.pc = "done", !.kind = "KeyError",
                                 !.ended = clock]]
  /\ UNCHANGED <<start_times, clock>>
  /\ TrkUnchanged

\* Lines 281-284 and 299: del self._start_times[span_name], a KeyError if
\* the entry has gone; otherwise the duration is returned and logged.
MT_EndDel(k) ==
  /\ span[k].pc = "del"
  /\ IF span[k].name \in DOMAIN start_times
       THEN /\ start_times' = DelSpan(start_times, span[k].name)
            /\ span' = [span EXCEPT ![k] =
                          [@ EXCEPT !.pc = "done", !.kind = "measured"]]
       ELSE /\ span' = [span EXCEPT ![k] =
                          [@ EXCEPT !.pc = "done", !.kind = "KeyError"]]
            /\ UNCHANGED start_times
  /\ UNCHANGED clock
  /\ TrkUnchanged

\* The wrapper has returned to its caller.
MT_Close(k) ==
  /\ span[k].pc = "done"
  /\ span' = [span EXCEPT ![k] = NoSpan]
  /\ UNCHANGED <<start_times, clock>>
  /\ TrkUnchanged

SpecTrackerInit ==
  /\ RLInit
  /\ max_requests = 1
  /\ time_window = 1
  /\ CallIdle
  /\ policyIn = [check_prompt_injection |-> TRUE, check_pii |-> TRUE,
                 redact_pii |-> FALSE, max_length |-> NoLimit]
  /\ policyOut = [check_toxicity |-> TRUE, check_pii |-> TRUE,
                  redact_pii |-> TRUE, max_length |-> NoLimit]
  /\ dlp_configured = FALSE

SpecTrackerNext ==
  \/ Tick
  \/ \E k \in Callers, f \in SpanNames : MT_Start(k, f)
  \/ \E k \in Callers : MT_Body(k)
  \/ \E k \in Callers : MT_EndCheck(k)
  \/ \E k \in Callers : MT_EndRead(k)
  \/ \E k \in Callers : MT_EndDel(k)
  \/ \E k \in Callers : MT_Close(k)

SpecTracker == SpecTrackerInit /\ [][SpecTrackerNext]_vars

\* C30: every call of a measured function that has ended reported the time
\* from its own start to its end, and _start_times is empty when no call is
\* in progress.
C30_OwnElapsedTime ==
  /\ \A k \in Callers :
       span[k].pc = "done" =>
         /\ span[k].kind = "measured"
         /\ span[k].duration = span[k].ended - span[k].began
  /\ (\A k \in Callers : span[k].pc \in {"idle", "done"}) =>
       DOMAIN start_times = {}

============================================================================
